---- MODULE Spec2Model ----
(***************************************************************************)
(* ntHash rolling hash engine (nthash-rs): standard, blind and spaced-seed *)
(* hashers with their builder/iterator facades.                            *)
(*                                                                         *)
(* A 64-bit word is modelled as the set of its set bit positions           *)
(* (a subset of 0..63): XOR is symmetric difference, AND is intersection,  *)
(* shifts and rotates move positions.  Wrapping addition and wrapping      *)
(* multiplication are computed exactly modulo 2^64 on eight 8-bit limbs.   *)
(* Bytes are their ASCII codes; Rust index i is TLA+ index i + 1.          *)
(***************************************************************************)
EXTENDS Integers, Sequences, FiniteSets, TLC

\* ------------------------------------------------------------------------
\* Bounds of the model
\* ------------------------------------------------------------------------
MaxLen == 3
MaxK == 2
MaxRolls == 2

\* ------------------------------------------------------------------------
\* 64-bit words
\* ------------------------------------------------------------------------
WordBits == 0..63

Bit(n, i) == (n \div (2^i)) % 2

\* the word 0xh3_h2_h1_h0 given as four 16-bit groups
Word16(h3, h2, h1, h0) ==
    LET g == <<h0, h1, h2, h3>>
    IN {i \in WordBits : Bit(g[(i \div 16) + 1], i % 16) = 1}

\* a small non-negative integer as a 64-bit word (`as u64`)
U64(n) == {i \in 0..30 : Bit(n, i) = 1}

Xor(a, b) == (a \ b) \cup (b \ a)

Shl(x, d) == {i + d : i \in {j \in x : j + d <= 63}}

Shr(x, d) == {i - d : i \in {j \in x : j >= d}}

RotL(x, d) == {(i + d) % 64 : i \in x}

Limb(x, j) ==
    LET b(i) == IF (8 * j + i) \in x THEN 2^i ELSE 0
    IN b(0) + b(1) + b(2) + b(3) + b(4) + b(5) + b(6) + b(7)

Limbs(x) ==
    <<Limb(x, 0), Limb(x, 1), Limb(x, 2), Limb(x, 3),
      Limb(x, 4), Limb(x, 5), Limb(x, 6), Limb(x, 7)>>

WordOfLimbs(l) == {i \in WordBits : Bit(l[(i \div 8) + 1], i % 8) = 1}

RECURSIVE AddLimbs(_, _, _, _)
AddLimbs(A, B, j, carry) ==
    IF j > 8 THEN <<>>
    ELSE LET s == A[j] + B[j] + carry
         IN <<s % 256>> \o AddLimbs(A, B, j + 1, s \div 256)

wrapping_add(a, b) == WordOfLimbs(AddLimbs(Limbs(a), Limbs(b), 1, 0))

RECURSIVE ColSum(_, _, _, _)
ColSum(A, B, j, a) ==
    IF a > j THEN 0 ELSE A[a] * B[j - a + 1] + ColSum(A, B, j, a + 1)

RECURSIVE MulLimbs(_, _, _, _)
MulLimbs(A, B, j, carry) ==
    IF j > 8 THEN <<>>
    ELSE LET s == ColSum(A, B, j, 1) + carry
         IN <<s % 256>> \o MulLimbs(A, B, j + 1, s \div 256)

wrapping_mul(a, b) == WordOfLimbs(MulLimbs(Limbs(a), Limbs(b), 1, 0))

\* ------------------------------------------------------------------------
\* tables.rs: split-rotate primitives
\* ------------------------------------------------------------------------
srol(x) ==
    LET m == Shr(x \cap {63}, 30) \cup Shr(x \cap {32}, 32)
    IN (Shl(x, 1) \ {33}) \cup m

\* sror that loses bit 0 instead of moving it to bit 32
sror_drops_bit0(x) ==
    (Shr(x, 1) \ {32}) \cup Shl(x \cap {33}, 30)

sror(x) ==
    LET m == Shl(x \cap {33}, 30) \cup Shl(x \cap {0}, 32)
    IN (Shr(x, 1) \ {32}) \cup m

srol_n(x, d) ==
    IF d = 0 THEN x
    ELSE LET v == RotL(x, d)
             y == Xor(v, Shr(v, 33)) \cap Shr(WordBits, 64 - d)
         IN Xor(v, y \cup Shl(y, 33))

\* ------------------------------------------------------------------------
\* constants.rs: seeds and lookup tables
\* ------------------------------------------------------------------------
ByteA == 65
ByteC == 67
ByteG == 71
ByteT == 84
ByteN == 78

SEED_A == Word16(15499, 64435, 38342, 1140)    \* 0x3c8bfbb395c60474
SEED_C == Word16(12691, 49541, 25248, 11084)   \* 0x3193c18562a02b4c
SEED_G == Word16(8242, 16080, 33367, 8996)     \* 0x20323ed082572324
SEED_T == Word16(10581, 18933, 19426, 17494)   \* 0x295549f54be24456
SEED_N == {}

MULTISEED == Word16(37044, 23865, 64365, 41466) \* 0x90b45d39fb6da1fa
MULTISHIFT == 27

CP_OFF == 7

\* c & CP_OFF on bytes
AndCP(c) == c % (CP_OFF + 1)

SEED_TAB(c) ==
    CASE c \in {ByteA, 4} -> SEED_A
      [] c \in {ByteC, 7} -> SEED_C
      [] c \in {ByteG, 3} -> SEED_G
      [] c \in {ByteT, 1} -> SEED_T
      [] OTHER -> SEED_N

CONVERT_TAB(c) ==
    CASE c = ByteA -> 0
      [] c = ByteC -> 1
      [] c = ByteG -> 2
      [] c = ByteT -> 3
      [] OTHER -> 255

RC_CONVERT_TAB(c) ==
    CASE c = ByteA -> 3
      [] c = ByteC -> 2
      [] c = ByteG -> 1
      [] c = ByteT -> 0
      [] OTHER -> 255

\* seed of the 2-bit code of a base (0 = A, 1 = C, 2 = G, 3 = T)
CodeSeed(b) ==
    CASE b = 0 -> SEED_A
      [] b = 1 -> SEED_C
      [] b = 2 -> SEED_G
      [] OTHER -> SEED_T

DIMER_TAB(idx) ==
    Xor(srol(CodeSeed((idx \div 4) % 4)), CodeSeed(idx % 4))

TRIMER_TAB(idx) ==
    Xor(srol_n(CodeSeed((idx \div 16) % 4), 2),
        Xor(srol(CodeSeed((idx \div 4) % 4)), CodeSeed(idx % 4)))

TETRAMER_TAB(idx) ==
    Xor(srol_n(CodeSeed((idx \div 64) % 4), 3),
        Xor(srol_n(CodeSeed((idx \div 16) % 4), 2),
            Xor(srol(CodeSeed((idx \div 4) % 4)), CodeSeed(idx % 4))))

\* rotate the 31-bit field (bits 33..63) left by d, d in 0..30
MS_TAB_31L(c, d) ==
    {33 + ((i - 33 + d) % 31) : i \in {j \in SEED_TAB(c) : j >= 33}}

\* rotate the 33-bit field (bits 0..32) left by d, d in 0..32
MS_TAB_33R(c, d) ==
    {(i + d) % 33 : i \in {j \in SEED_TAB(c) : j <= 32}}

\* srol_table indexing both tables with d % 31
srol_table_one_index(c, d) == MS_TAB_31L(c, d % 31) \cup MS_TAB_33R(c, d % 31)

srol_table(c, d) == MS_TAB_31L(c, d % 31) \cup MS_TAB_33R(c, d % 33)

\* ------------------------------------------------------------------------
\* util.rs
\* ------------------------------------------------------------------------
canonical(fwd, rev) == wrapping_add(fwd, rev)

\* extend_hashes counting the extra hashes from 1 after the skip, so that slot
\* i is mixed with i - 1
extend_hashes_recount(fwd, rev, kk, n) ==
    LET base == canonical(fwd, rev)
        kmul == wrapping_mul(U64(kk), MULTISEED)
        slot(i) ==
            IF i = 0 THEN base
            ELSE LET mix == Xor(U64(i - 1), kmul)
                     t == wrapping_mul(base, mix)
                 IN Xor(t, Shr(t, MULTISHIFT))
    IN [i \in 1..n |-> slot(i - 1)]

\* the buffer of length n after extend_hashes(fwd, rev, k, buffer)
extend_hashes(fwd, rev, kk, n) ==
    LET base == canonical(fwd, rev)
        kmul == wrapping_mul(U64(kk), MULTISEED)
        slot(i) ==
            IF i = 0 THEN base
            ELSE LET mix == Xor(U64(i), kmul)
                     t == wrapping_mul(base, mix)
                 IN Xor(t, Shr(t, MULTISHIFT))
    IN [i \in 1..n |-> slot(i - 1)]

\* ------------------------------------------------------------------------
\* kmer.rs: base hashes and rolling steps
\* ------------------------------------------------------------------------
\* seq[i] of a Rust slice
At(s, i) == s[i + 1]

\* &seq[p..]
From(s, p) == SubSeq(s, p + 1, Len(s))

Ambiguous(c) == SEED_TAB(c) = SEED_N

\* has_invalid_base taking the first ambiguous byte (position) instead of the
\* last (rposition)
has_invalid_base_first(s, kk, pos_n) ==
    LET bad == {i \in 0..(kk - 1) : Ambiguous(At(s, i))}
    IN IF bad # {}
       THEN [found |-> TRUE, pos_n |-> CHOOSE i \in bad : \A j \in bad : i <= j]
       ELSE [found |-> FALSE, pos_n |-> pos_n]

\* [found, pos_n]: the boolean returned and *pos_n after the call, pos_n being
\* its value before; rposition of an ambiguous byte in seq[..kk]
has_invalid_base(s, kk, pos_n) ==
    LET bad == {i \in 0..(kk - 1) : Ambiguous(At(s, i))}
    IN IF bad # {}
       THEN [found |-> TRUE, pos_n |-> CHOOSE i \in bad : \A j \in bad : j <= i]
       ELSE [found |-> FALSE, pos_n |-> pos_n]

RECURSIVE fwd_chunks(_, _, _, _)
fwd_chunks(s, n, c, h) ==
    IF c >= n THEN h
    ELSE LET idx == CONVERT_TAB(At(s, 4 * c)) * 64
                    + CONVERT_TAB(At(s, 4 * c + 1)) * 16
                    + CONVERT_TAB(At(s, 4 * c + 2)) * 4
                    + CONVERT_TAB(At(s, 4 * c + 3))
         IN fwd_chunks(s, n, c + 1, Xor(srol_n(h, 4), TETRAMER_TAB(idx % 256)))

\* base_forward_hash without the rotation of the accumulator by k % 4 before
\* the tail is XORed in
base_forward_hash_tail_unrotated(s, kk) ==
    LET h == fwd_chunks(s, (kk - (kk % 4)) \div 4, 0, {})
    IN CASE kk % 4 = 3 ->
              Xor(h, TRIMER_TAB((CONVERT_TAB(At(s, kk - 3)) * 16
                                 + CONVERT_TAB(At(s, kk - 2)) * 4
                                 + CONVERT_TAB(At(s, kk - 1))) % 64))
         [] kk % 4 = 2 ->
              Xor(h, DIMER_TAB((CONVERT_TAB(At(s, kk - 2)) * 4
                                + CONVERT_TAB(At(s, kk - 1))) % 16))
         [] kk % 4 = 1 -> Xor(h, SEED_TAB(At(s, kk - 1)))
         [] OTHER -> h

base_forward_hash(s, kk) ==
    LET h0 == fwd_chunks(s, (kk - (kk % 4)) \div 4, 0, {})
        h == srol_n(h0, kk % 4)
    IN CASE kk % 4 = 3 ->
              Xor(h, TRIMER_TAB((CONVERT_TAB(At(s, kk - 3)) * 16
                                 + CONVERT_TAB(At(s, kk - 2)) * 4
                                 + CONVERT_TAB(At(s, kk - 1))) % 64))
         [] kk % 4 = 2 ->
              Xor(h, DIMER_TAB((CONVERT_TAB(At(s, kk - 2)) * 4
                                + CONVERT_TAB(At(s, kk - 1))) % 16))
         [] kk % 4 = 1 -> Xor(h, SEED_TAB(At(s, kk - 1)))
         [] OTHER -> h

\* base_reverse_hash hashing the window itself instead of its reverse complement
base_reverse_hash_same_strand(s, kk) == base_forward_hash(s, kk)

RECURSIVE rev_chunks(_, _, _)
rev_chunks(s, i, h) ==
    IF i < 4 THEN h
    ELSE LET idx == RC_CONVERT_TAB(At(s, i - 1)) * 64
                    + RC_CONVERT_TAB(At(s, i - 2)) * 16
                    + RC_CONVERT_TAB(At(s, i - 3)) * 4
                    + RC_CONVERT_TAB(At(s, i - 4))
         IN rev_chunks(s, i - 4, Xor(srol_n(h, 4), TETRAMER_TAB(idx % 256)))

base_reverse_hash(s, kk) ==
    LET h == CASE kk % 4 = 3 ->
                    TRIMER_TAB((RC_CONVERT_TAB(At(s, kk - 1)) * 16
                                + RC_CONVERT_TAB(At(s, kk - 2)) * 4
                                + RC_CONVERT_TAB(At(s, kk - 3))) % 64)
               [] kk % 4 = 2 ->
                    DIMER_TAB((RC_CONVERT_TAB(At(s, kk - 1)) * 4
                               + RC_CONVERT_TAB(At(s, kk - 2))) % 16)
               [] kk % 4 = 1 -> SEED_TAB(AndCP(At(s, kk - 1)))
               [] OTHER -> {}
    IN rev_chunks(s, kk - (kk % 4), h)

next_forward_hash(prev, kk, char_out, char_in) ==
    Xor(Xor(srol(prev), SEED_TAB(char_in)), srol_table(char_out, kk))

prev_forward_hash(prev, kk, char_out, char_in) ==
    sror(Xor(Xor(prev, srol_table(char_in, kk)), SEED_TAB(char_out)))

\* next_reverse_hash looking up the bases themselves instead of their complements
next_reverse_hash_nocomp(prev, kk, char_out, char_in) ==
    sror(Xor(Xor(prev, srol_table(char_in, kk)), SEED_TAB(char_out)))

next_reverse_hash(prev, kk, char_out, char_in) ==
    sror(Xor(Xor(prev, srol_table(AndCP(char_in), kk)), SEED_TAB(AndCP(char_out))))

prev_reverse_hash(prev, kk, char_out, char_in) ==
    Xor(Xor(srol(prev), SEED_TAB(AndCP(char_in))), srol_table(AndCP(char_out), kk))

\* ------------------------------------------------------------------------
\* State
\* ------------------------------------------------------------------------
VARIABLES
    mode,            \* which type is exercised: "nt", "ntiter", "seediter", "blinditer", "new_nt", ...
    overflow_checks, \* build profile: TRUE = arithmetic overflow panics, FALSE = it wraps
    seq,             \* the borrowed sequence
    k,               \* window length (u16)
    num_hashes,      \* requested number of hashes
    start_pos,       \* requested start position
    seed_masks,      \* spaced-seed masks (list of byte strings), or the care-index lists
                     \* given to SeedNtHash::from_care_indices
    res,             \* result of the constructor: "none" before the call, "Ok", an error name, or "panic"
    pos,
    initialized,
    fwd_hash,
    rev_hash,
    hashes,
    seeds,           \* SeedNtHash.seeds: care indices per seed
    window,          \* BlindNtHash.window
    done,            \* NtHashIter.done / SeedNtHashIter.done
    first,           \* BlindNtHashIter.first
    end,             \* BlindNtHashIter.end
    op,              \* last operation called
    ret,             \* its boolean result (for next(): TRUE = Some, FALSE = None)
    emitted,         \* items yielded by the iterator so far
    panicked         \* the last call panicked

vars == <<mode, overflow_checks, seq, k, num_hashes, start_pos, seed_masks, res,
          pos, initialized, fwd_hash, rev_hash, hashes, seeds, window,
          done, first, end, op, ret, emitted, panicked>>

args == <<mode, overflow_checks, seq, k, num_hashes, start_pos, seed_masks>>

Alphabet == {ByteA, ByteC, ByteG, ByteT, ByteN}

Seqs(alpha, n) == UNION {[1..m -> alpha] : m \in 0..n}

\* longer sequences of the regression tests and of the documentation,
\* hashed with the window lengths used there
Sample1 == <<65, 67, 71, 84, 78, 65, 67, 71, 84, 65, 67, 71, 84>>  \* ACGTNACGTACGT
Sample2 == <<65, 84, 67, 71, 84, 65, 67, 71, 78, 78, 78, 78, 78, 78, 78, 78,
             65, 84, 71, 67, 84, 71, 65, 67, 71>>   \* ATCGTACGNNNNNNNNATGCTGACG
Samples == {Sample1, Sample2}
\* the sequence of tests/simple_kmer.rs, free of ambiguous bytes
Sample3 == <<65, 84, 67, 71, 84, 65, 67, 71, 65, 84, 71, 67, 65, 84, 71, 67,
             65, 84, 71, 67, 84, 71, 65, 67, 71>>   \* ATCGTACGATGCATGCATGCTGACG
SampleK == {4, 6}
HashCounts == {0, 1}

\* bytes handed to peek_char / peek_back_char: one base, one ambiguous byte
PeekBytes == {ByteT, ByteN}

\* nothing constructed yet; the arguments are drawn from the given sets
InitArgs(m, OC, S, K, P, H, MS) ==
    /\ mode = m
    /\ overflow_checks \in OC
    /\ seq \in S
    /\ k \in K
    /\ start_pos \in P
    /\ num_hashes \in H
    /\ seed_masks \in MS
    /\ res = "none"
    /\ pos = 0
    /\ initialized = FALSE
    /\ fwd_hash = {}
    /\ rev_hash = {}
    /\ hashes = <<>>
    /\ seeds = <<>>
    /\ window = <<>>
    /\ done = FALSE
    /\ first = FALSE
    /\ end = 0
    /\ op = "none"
    /\ ret = FALSE
    /\ emitted = <<>>
    /\ panicked = FALSE

Live == res = "Ok" /\ ~panicked

\* ------------------------------------------------------------------------
\* kmer.rs: NtHash
\* ------------------------------------------------------------------------
\* NtHash::new comparing pos with len - k before len is compared with k
nt_new_pos_first(s, kk, p) ==
    IF kk = 0 THEN "InvalidK"
    ELSE IF Len(s) - kk < 0 THEN "panic"
    ELSE IF p > Len(s) - kk THEN "PositionOutOfRange"
    ELSE IF Len(s) < kk THEN "SequenceTooShort"
    ELSE "Ok"

\* result of NtHash::new
nt_new(s, kk, p) ==
    IF kk = 0 THEN "InvalidK"
    ELSE IF Len(s) < kk THEN "SequenceTooShort"
    ELSE IF Len(s) - kk < 0 THEN "panic"
    ELSE IF p > Len(s) - kk THEN "PositionOutOfRange"
    ELSE "Ok"

\* the hasher's fields, the result of the call in progress, and whether it panicked
NtCur == [pos |-> pos, initialized |-> initialized, fwd_hash |-> fwd_hash,
          rev_hash |-> rev_hash, hashes |-> hashes, ret |-> FALSE, panic |-> FALSE]

InBounds(i) == 0 <= i /\ i < Len(seq)

Panic(s) == [s EXCEPT !.panic = TRUE, !.ret = FALSE]

update_hashes(s) ==
    [s EXCEPT !.hashes = extend_hashes(s.fwd_hash, s.rev_hash, k, Len(s.hashes))]

fill_hash_buffer(s, fwd, rev) ==
    [s EXCEPT !.hashes = extend_hashes(fwd, rev, k, Len(s.hashes))]

\* the position at which the loop of NtHash::init stops
RECURSIVE init_scan(_)
init_scan(p) ==
    IF p <= Len(seq) - k
    THEN LET r == has_invalid_base(From(seq, p), k, 0)
         IN IF r.found THEN init_scan(p + r.pos_n + 1) ELSE p
    ELSE p

init(s) ==
    LET p == init_scan(s.pos)
    IN IF p <= Len(seq) - k
       THEN LET t == [s EXCEPT !.pos = p,
                               !.fwd_hash = base_forward_hash(From(seq, p), k),
                               !.rev_hash = base_reverse_hash(From(seq, p), k)]
            IN [update_hashes(t) EXCEPT !.initialized = TRUE, !.ret = TRUE]
       ELSE [s EXCEPT !.pos = p, !.ret = FALSE]

\* roll without the test of the incoming byte: an ambiguous byte is rolled in
roll_no_skip(s) ==
    IF ~s.initialized THEN init(s)
    ELSE IF s.pos >= Len(seq) - k THEN [s EXCEPT !.ret = FALSE]
    ELSE LET incoming == At(seq, s.pos + k)
             outgoing == At(seq, s.pos)
             t == [s EXCEPT
                     !.fwd_hash = next_forward_hash(s.fwd_hash, k, outgoing, incoming),
                     !.rev_hash = next_reverse_hash(s.rev_hash, k, outgoing, incoming)]
         IN [update_hashes(t) EXCEPT !.pos = s.pos + 1, !.ret = TRUE]

\* roll as it would be if the end of the sequence were not terminal: at the
\* last window it starts over from the first window
roll_end_restarts(s) ==
    IF ~s.initialized THEN init(s)
    ELSE IF s.pos >= Len(seq) - k THEN init([s EXCEPT !.pos = 0])
    ELSE IF ~InBounds(s.pos + k) THEN Panic(s)
    ELSE IF Ambiguous(At(seq, s.pos + k)) THEN init([s EXCEPT !.pos = s.pos + k])
    ELSE IF ~InBounds(s.pos) THEN Panic(s)
    ELSE roll_no_skip(s)

roll(s) ==
    IF ~s.initialized THEN init(s)
    ELSE IF s.pos >= Len(seq) - k THEN [s EXCEPT !.ret = FALSE]
    ELSE IF ~InBounds(s.pos + k) THEN Panic(s)
    ELSE LET incoming == At(seq, s.pos + k)
         IN IF Ambiguous(incoming) THEN init([s EXCEPT !.pos = s.pos + k])
            ELSE IF ~InBounds(s.pos) THEN Panic(s)
            ELSE LET outgoing == At(seq, s.pos)
                     t == [s EXCEPT
                             !.fwd_hash = next_forward_hash(s.fwd_hash, k, outgoing, incoming),
                             !.rev_hash = next_reverse_hash(s.rev_hash, k, outgoing, incoming)]
                 IN [update_hashes(t) EXCEPT !.pos = s.pos + 1, !.ret = TRUE]

\* NtHash::roll_back after its lazy initialisation: s is the hasher then, and
\* was_init says whether it was initialized on entry
roll_back_step(s, was_init) ==
       IF ~was_init /\ ~s.ret THEN s
       ELSE IF s.pos = 0 THEN [s EXCEPT !.ret = FALSE]
       ELSE IF ~InBounds(s.pos - 1) THEN Panic(s)
       ELSE LET incoming == At(seq, s.pos - 1)
            IN IF Ambiguous(incoming)
               THEN IF s.pos < k THEN [s EXCEPT !.ret = FALSE]
                    ELSE init([s EXCEPT !.pos = s.pos - k])
               ELSE IF ~InBounds(s.pos + k - 1) THEN Panic(s)
               ELSE LET outgoing == At(seq, s.pos + k - 1)
                        t == [s EXCEPT
                                !.fwd_hash = prev_forward_hash(s.fwd_hash, k, outgoing, incoming),
                                !.rev_hash = prev_reverse_hash(s.rev_hash, k, outgoing, incoming)]
                    IN [update_hashes(t) EXCEPT !.pos = s.pos - 1, !.ret = TRUE]

roll_back(s0) ==
    roll_back_step(IF ~s0.initialized THEN init(s0) ELSE s0, s0.initialized)

\* NtHash::peek_char after its lazy initialisation
peek_char_step(s, was_init, incoming) ==
       IF ~was_init /\ ~s.ret THEN s
       ELSE IF Ambiguous(incoming) THEN [s EXCEPT !.ret = FALSE]
       ELSE IF ~InBounds(s.pos) THEN Panic(s)
       ELSE LET outgoing == At(seq, s.pos)
                fwd == next_forward_hash(s.fwd_hash, k, outgoing, incoming)
                rev == next_reverse_hash(s.rev_hash, k, outgoing, incoming)
            IN [fill_hash_buffer(s, fwd, rev) EXCEPT !.ret = TRUE]

peek_char(s0, incoming) ==
    peek_char_step(IF ~s0.initialized THEN init(s0) ELSE s0, s0.initialized, incoming)

peek(s) ==
    IF s.pos >= Len(seq) - k THEN [s EXCEPT !.ret = FALSE]
    ELSE IF ~InBounds(s.pos + k) THEN Panic(s)
    ELSE peek_char(s, At(seq, s.pos + k))

\* NtHash::peek_back_char after its lazy initialisation
peek_back_char_step(s, was_init, incoming) ==
       IF ~was_init /\ ~s.ret THEN s
       ELSE IF Ambiguous(incoming) THEN [s EXCEPT !.ret = FALSE]
       ELSE IF ~InBounds(s.pos + k - 1) THEN Panic(s)
       ELSE LET outgoing == At(seq, s.pos + k - 1)
                fwd == prev_forward_hash(s.fwd_hash, k, outgoing, incoming)
                rev == prev_reverse_hash(s.rev_hash, k, outgoing, incoming)
            IN [fill_hash_buffer(s, fwd, rev) EXCEPT !.ret = TRUE]

peek_back_char(s0, incoming) ==
    peek_back_char_step(IF ~s0.initialized THEN init(s0) ELSE s0, s0.initialized,
                        incoming)

peek_back(s) ==
    IF s.pos = 0 THEN [s EXCEPT !.ret = FALSE]
    ELSE IF ~InBounds(s.pos - 1) THEN Panic(s)
    ELSE peek_back_char(s, At(seq, s.pos - 1))

\* store the hasher fields and the outcome of a call
NtStore(s, name) ==
    /\ pos' = s.pos
    /\ initialized' = s.initialized
    /\ fwd_hash' = s.fwd_hash
    /\ rev_hash' = s.rev_hash
    /\ hashes' = s.hashes
    /\ ret' = s.ret
    /\ panicked' = s.panic
    /\ op' = name

NtNew ==
    /\ mode = "nt"
    /\ res = "none"
    /\ res' = nt_new(seq, k, start_pos)
    /\ pos' = IF res' = "Ok" THEN start_pos ELSE pos
    /\ hashes' = IF res' = "Ok" THEN [i \in 1..num_hashes |-> {}] ELSE hashes
    /\ op' = "new"
    /\ UNCHANGED <<args, initialized, fwd_hash, rev_hash, seeds, window, done,
                   first, end, ret, emitted, panicked>>

NtFrame == UNCHANGED <<args, res, seeds, window, done, first, end, emitted>>

Roll == mode = "nt" /\ Live /\ NtStore(roll(NtCur), "roll") /\ NtFrame

RollBack == mode = "nt" /\ Live /\ NtStore(roll_back(NtCur), "roll_back") /\ NtFrame

Peek == mode = "nt" /\ Live /\ NtStore(peek(NtCur), "peek") /\ NtFrame

PeekChar ==
    /\ mode = "nt"
    /\ Live
    /\ \E c \in PeekBytes : NtStore(peek_char(NtCur, c), "peek_char")
    /\ NtFrame

PeekBack == mode = "nt" /\ Live /\ NtStore(peek_back(NtCur), "peek_back") /\ NtFrame

PeekBackChar ==
    /\ mode = "nt"
    /\ Live
    /\ \E c \in PeekBytes : NtStore(peek_back_char(NtCur, c), "peek_back_char")
    /\ NtFrame

\* NtHashIter::next on a live iterator: s is the hasher after roll
NtIterStore(s) ==
    /\ NtStore(s, "next")
    /\ done' = ~s.ret
    /\ emitted' = IF s.ret THEN Append(emitted, <<s.pos, s.hashes>>) ELSE emitted

\* NtHashBuilder::finish
NtBuilderFinish ==
    /\ mode = "ntiter"
    /\ res = "none"
    /\ res' = nt_new(seq, k, start_pos)
    /\ pos' = IF res' = "Ok" THEN start_pos ELSE pos
    /\ hashes' = IF res' = "Ok" THEN [i \in 1..num_hashes |-> {}] ELSE hashes
    /\ done' = FALSE
    /\ op' = "new"
    /\ UNCHANGED <<args, initialized, fwd_hash, rev_hash, seeds, window,
                   first, end, ret, emitted, panicked>>

\* NtHashIter::next
NtIterNext ==
    /\ mode = "ntiter"
    /\ Live
    /\ IF done
       THEN /\ ret' = FALSE
            /\ op' = "next"
            /\ UNCHANGED <<pos, initialized, fwd_hash, rev_hash, hashes,
                           panicked, done, emitted>>
       ELSE NtIterStore(roll(NtCur))
    /\ UNCHANGED <<args, res, seeds, window, first, end>>

InitNt ==
    \E m \in {"nt", "ntiter"} :
        InitArgs(m, {TRUE}, Seqs(Alphabet, MaxLen) \cup Samples,
                 (1..MaxK) \cup SampleK, 0..MaxLen, HashCounts, {<<>>})

NextNt ==
    \/ NtNew
    \/ Roll
    \/ RollBack
    \/ Peek
    \/ PeekChar
    \/ PeekBack
    \/ PeekBackChar
    \/ NtBuilderFinish
    \/ NtIterNext

SpecNt == InitNt /\ [][NextNt]_vars

\* ------------------------------------------------------------------------
\* Properties of the standard hasher
\* ------------------------------------------------------------------------
\* the window at position p lies inside seq and holds no ambiguous byte
ValidWindow(p) ==
    /\ 0 <= p
    /\ p + k <= Len(seq)
    /\ \A j \in 0..(k - 1) : ~Ambiguous(At(seq, p + j))

\* the positions of `emitted`
Positions == [i \in 1..Len(emitted) |-> emitted[i][1]]

\* the valid window positions from the start position on
ValidFrom == {p \in start_pos..(Len(seq) - k) : ValidWindow(p)}

\* the accumulators and the buffer are those of the window at pos
Recomputed ==
    /\ 0 <= pos
    /\ pos + k <= Len(seq)
    /\ fwd_hash = base_forward_hash(From(seq, pos), k)
    /\ rev_hash = base_reverse_hash(From(seq, pos), k)
    /\ hashes = extend_hashes(fwd_hash, rev_hash, k, num_hashes)

\* C1: NtHashIter yields, in strictly increasing order, exactly the positions
\* p with start <= p <= len - k whose window holds no ambiguous byte: at every
\* moment the yielded positions are the smallest valid positions, each once,
\* and when the iterator has returned None they are all of them.
C1_IterPositions ==
    (mode = "ntiter" /\ res = "Ok") =>
        /\ \A i \in 1..Len(emitted) :
              /\ Positions[i] \in ValidFrom
              /\ Cardinality({p \in ValidFrom : p < Positions[i]}) = i - 1
        /\ done => Len(emitted) = Cardinality(ValidFrom)

\* the iterator over ACGTNACGTACGT with k = 4 has yielded 0,5,6,7,8,9 and ended
C1_Witness ==
    /\ mode = "ntiter"
    /\ done
    /\ seq = Sample1
    /\ k = 4
    /\ start_pos = 0
    /\ Positions = <<0, 5, 6, 7, 8, 9>>

\* C2: whenever roll or roll_back returns true (and for every item the
\* iterator yields), fwd_hash, rev_hash and hashes are the base hashes and the
\* extended hashes of the window at the position held after the call.
C2_RollingEqualsRecomputation ==
    /\ (mode = "nt" /\ op \in {"roll", "roll_back"} /\ ret) => Recomputed
    /\ (mode = "ntiter" /\ op = "next" /\ ret) =>
          /\ Recomputed
          /\ emitted[Len(emitted)] = <<pos, hashes>>

\* roll_back has returned true after a rolling step over a window of 6 bases
C2_Witness ==
    /\ mode = "nt"
    /\ op = "roll_back"
    /\ ret
    /\ initialized
    /\ k = 6
    /\ pos = 1
    /\ num_hashes = 1

\* C3: whenever initialized is true, fwd_hash and rev_hash are the base
\* hashes of seq[pos..pos+k] and that window holds no ambiguous byte.
C3_InitializedInvariant ==
    (mode = "nt" /\ res = "Ok" /\ initialized) =>
        /\ ValidWindow(pos)
        /\ fwd_hash = base_forward_hash(From(seq, pos), k)
        /\ rev_hash = base_reverse_hash(From(seq, pos), k)

\* C4: in every state of a constructed NtHash, 0 <= pos <= len(seq) - k.
C4_PosInRange ==
    (mode = "nt" /\ res = "Ok") => (0 <= pos /\ pos <= Len(seq) - k)

\* C5: no sequence of roll, roll_back and peek calls reads seq out of bounds.
C5_NoPanic ==
    (mode = "nt" /\ res = "Ok") => ~panicked

\* ------------------------------------------------------------------------
\* seed.rs: SeedNtHash
\* ------------------------------------------------------------------------
Byte0 == 48
Byte1 == 49
ByteX == 120

\* parse_seed_string looking at the characters before the length
parse_seed_string_chars_first(mask, kk) ==
    IF ~(\A i \in 1..Len(mask) : mask[i] = Byte0 \/ mask[i] = Byte1)
    THEN [err |-> "InvalidSequence", care |-> <<>>]
    ELSE IF Len(mask) # kk THEN [err |-> "InvalidK", care |-> <<>>]
    ELSE [err |-> "Ok", care |-> <<>>]

\* [err, care]: result of parse_seed_string
parse_seed_string(mask, kk) ==
    IF Len(mask) # kk THEN [err |-> "InvalidK", care |-> <<>>]
    ELSE IF ~(\A i \in 1..Len(mask) : mask[i] = Byte0 \/ mask[i] = Byte1)
    THEN [err |-> "InvalidSequence", care |-> <<>>]
    ELSE [err |-> "Ok",
          care |-> LET F[i \in 0..Len(mask)] ==
                           IF i = 0 THEN <<>>
                           ELSE IF mask[i] = Byte1 THEN Append(F[i - 1], i - 1)
                           ELSE F[i - 1]
                   IN F[Len(mask)]]

\* the loop of SeedNtHash::new over the masks: [err, seeds]
RECURSIVE parse_masks(_, _, _, _)
parse_masks(masks, kk, i, acc) ==
    IF i > Len(masks) THEN [err |-> "Ok", seeds |-> acc]
    ELSE LET r == parse_seed_string(masks[i], kk)
         IN IF r.err # "Ok" THEN [err |-> r.err, seeds |-> <<>>]
            ELSE parse_masks(masks, kk, i + 1, Append(acc, r.care))

\* [err, seeds]: result of SeedNtHash::new
seed_new(s, masks, kk, p) ==
    IF kk = 0 THEN [err |-> "InvalidK", seeds |-> <<>>]
    ELSE IF Len(s) < kk THEN [err |-> "SequenceTooShort", seeds |-> <<>>]
    ELSE IF Len(s) - kk < 0 THEN [err |-> "panic", seeds |-> <<>>]
    ELSE IF p > Len(s) - kk THEN [err |-> "PositionOutOfRange", seeds |-> <<>>]
    ELSE parse_masks(masks, kk, 1, <<>>)

Max(a, b) == IF a >= b THEN a ELSE b

\* SeedNtHash.num_hashes
seed_num_hashes == Max(num_hashes, 1)

\* compute_pair rotating the forward seed by k - p instead of k - 1 - p
RECURSIVE compute_pair_off(_, _, _, _, _)
compute_pair_off(win, care, i, fwd, rev) ==
    IF i > Len(care) THEN <<fwd, rev>>
    ELSE compute_pair_off(win, care, i + 1,
                          Xor(fwd, srol_table(At(win, care[i]), k - care[i])),
                          Xor(rev, srol_table(AndCP(At(win, care[i])), care[i])))

\* <<fwd, rev>> of one seed over the window starting at p
RECURSIVE compute_pair(_, _, _, _, _)
compute_pair(win, care, i, fwd, rev) ==
    IF i > Len(care) THEN <<fwd, rev>>
    ELSE LET q == care[i]
             c_f == At(win, q)
             c_r == AndCP(c_f)
         IN compute_pair(win, care, i + 1,
                         Xor(fwd, srol_table(c_f, k - 1 - q)),
                         Xor(rev, srol_table(c_r, q)))

SeedCur == [pos |-> pos, initialized |-> initialized, hashes |-> hashes,
            ret |-> FALSE, panic |-> FALSE]

RECURSIVE Flatten(_)
Flatten(ss) == IF ss = <<>> THEN <<>> ELSE Head(ss) \o Flatten(Tail(ss))

\* compute_current writing the seeds' slices in the opposite order
compute_current_swapped(s) ==
    IF s.pos + k > Len(seq) THEN Panic(s)
    ELSE LET win == SubSeq(seq, s.pos + 1, s.pos + k)
         IN IF \E i \in 1..Len(seeds) : \E j \in 1..Len(seeds[i]) :
                    ~(seeds[i][j] < k)
            THEN Panic(s)
            ELSE IF \E i \in 1..Len(seeds) : \E j \in 1..Len(seeds[i]) :
                        Ambiguous(At(win, seeds[i][j]))
            THEN [s EXCEPT !.ret = FALSE]
            ELSE LET slice(i) ==
                         LET pr == compute_pair(win, seeds[i], 1, {}, {})
                         IN extend_hashes(pr[1], pr[2], k, seed_num_hashes)
                 IN [s EXCEPT !.hashes = Flatten([i \in 1..Len(seeds) |->
                                                     slice(Len(seeds) + 1 - i)]),
                              !.ret = TRUE]

compute_current(s) ==
    IF s.pos + k > Len(seq) THEN Panic(s)
    ELSE LET win == SubSeq(seq, s.pos + 1, s.pos + k)
         IN IF \E i \in 1..Len(seeds) : \E j \in 1..Len(seeds[i]) :
                    ~(seeds[i][j] < k)
            THEN Panic(s)
            ELSE IF \E i \in 1..Len(seeds) : \E j \in 1..Len(seeds[i]) :
                        Ambiguous(At(win, seeds[i][j]))
            THEN [s EXCEPT !.ret = FALSE]
            ELSE LET slice(i) ==
                         LET pr == compute_pair(win, seeds[i], 1, {}, {})
                         IN extend_hashes(pr[1], pr[2], k, seed_num_hashes)
                 IN [s EXCEPT !.hashes = Flatten([i \in 1..Len(seeds) |-> slice(i)]),
                              !.ret = TRUE]

\* the loop of SeedNtHash::init
RECURSIVE seed_init(_)
seed_init(s) ==
    IF s.pos <= Len(seq) - k
    THEN LET t == compute_current(s)
         IN IF t.panic THEN t
            ELSE IF t.ret THEN [t EXCEPT !.initialized = TRUE]
            ELSE seed_init([s EXCEPT !.pos = s.pos + 1])
    ELSE [s EXCEPT !.ret = FALSE]

\* SeedNtHash::roll without the test for the last window
seed_roll_past_end(s) ==
    IF ~s.initialized THEN seed_init(s)
    ELSE compute_current([s EXCEPT !.pos = s.pos + 1])

seed_roll(s) ==
    IF ~s.initialized THEN seed_init(s)
    ELSE IF s.pos >= Len(seq) - k THEN [s EXCEPT !.ret = FALSE]
    ELSE compute_current([s EXCEPT !.pos = s.pos + 1])

SeedStore(s, name) ==
    /\ pos' = s.pos
    /\ initialized' = s.initialized
    /\ hashes' = s.hashes
    /\ ret' = s.ret
    /\ panicked' = s.panic
    /\ op' = name

\* SeedNtHashBuilder::finish
SeedBuilderFinish ==
    /\ mode = "seediter"
    /\ res = "none"
    /\ LET r == seed_new(seq, seed_masks, k, start_pos)
       IN /\ res' = r.err
          /\ seeds' = r.seeds
          /\ pos' = IF r.err = "Ok" THEN start_pos ELSE pos
          /\ hashes' = IF r.err = "Ok"
                       THEN [i \in 1..(Len(seed_masks) * seed_num_hashes) |-> {}]
                       ELSE hashes
    /\ done' = FALSE
    /\ op' = "new"
    /\ UNCHANGED <<args, initialized, fwd_hash, rev_hash, window,
                   first, end, ret, emitted, panicked>>

\* SeedNtHashIter::next
SeedIterNext ==
    /\ mode = "seediter"
    /\ Live
    /\ IF done
       THEN /\ ret' = FALSE
            /\ op' = "next"
            /\ UNCHANGED <<pos, initialized, hashes, panicked, done, emitted>>
       ELSE LET s == seed_roll(SeedCur)
            IN /\ SeedStore(s, "next")
               /\ done' = ~s.ret
               /\ emitted' = IF s.ret THEN Append(emitted, <<s.pos, s.hashes>>)
                             ELSE emitted
    /\ UNCHANGED <<args, res, fwd_hash, rev_hash, seeds, window, first, end>>

\* lists of at most two masks
MaskLists(M) == {<<>>} \cup {<<a>> : a \in M} \cup {<<a, b>> : a \in M, b \in M}

SeedAlphabet == {ByteA, ByteG, ByteN}

\* window lengths that take the 4-mer loop of the base hashes, one for each
\* value of k mod 4
LongK == {4, 5, 6, 7}

\* the mask of kk '1' characters
OnesMask(kk) == [i \in 1..kk |-> Byte1]

\* the mask that cares for the first position only
HeadMask(kk) == [i \in 1..kk |-> IF i = 1 THEN Byte1 ELSE Byte0]

InitSeed ==
    \/ \E kk \in 1..MaxK :
          InitArgs("seediter", {TRUE}, Seqs(SeedAlphabet, MaxLen), {kk}, 0..MaxLen,
                   HashCounts, MaskLists([1..kk -> {Byte0, Byte1}]))
    \/ \E kk \in LongK :
          InitArgs("seediter", {TRUE}, {Sample3}, {kk}, 0..MaxLen,
                   HashCounts, {<<OnesMask(kk)>>})
    \/ \E kk \in 1..MaxK :
          InitArgs("seediter", {TRUE}, Seqs({ByteA, ByteG}, MaxLen), {kk}, {0},
                   {2}, {<<OnesMask(kk), HeadMask(kk)>>})

NextSeed == SeedBuilderFinish \/ SeedIterNext

SpecSeed == InitSeed /\ [][NextSeed]_vars

\* every care position of every seed is unambiguous in the window at p
SeedValidWindow(p) ==
    /\ 0 <= p
    /\ p + k <= Len(seq)
    /\ \A i \in 1..Len(seeds) : \A j \in 1..Len(seeds[i]) :
          ~Ambiguous(At(seq, p + seeds[i][j]))

SeedValidFrom == {p \in start_pos..(Len(seq) - k) : SeedValidWindow(p)}

\* C6: SeedNtHashIter yields, in increasing order, every position p with
\* start <= p <= len - k whose window is unambiguous at every care position
\* of every seed; an invalid window is skipped and the scan goes on, so that
\* the iterator ends having yielded all of them.
C6_SeedIterPositions ==
    (mode = "seediter" /\ res = "Ok") =>
        /\ \A i \in 1..Len(emitted) :
              /\ Positions[i] \in SeedValidFrom
              /\ Cardinality({p \in SeedValidFrom : p < Positions[i]}) = i - 1
        /\ done => Len(emitted) = Cardinality(SeedValidFrom)

\* ------------------------------------------------------------------------
\* blind.rs: BlindNtHash
\* ------------------------------------------------------------------------
\* Result of BlindNtHash::new.  There is no len < k test: len - k_usz
\* underflows.  With overflow checks the subtraction panics; without them it
\* wraps to 2^64 - (k - len), which no pos exceeds, and the slice
\* seq[pos..pos + k] then panics since pos + k > len.
blind_new(s, kk, p, oc) ==
    IF kk = 0 THEN "InvalidK"
    ELSE IF p < 0 THEN "PositionOutOfRange"
    ELSE IF Len(s) < kk
         THEN IF oc THEN "panic: attempt to subtract with overflow"
              ELSE "panic: range end index out of range"
    ELSE IF p > Len(s) - kk THEN "PositionOutOfRange"
    ELSE IF p + kk > Len(s) THEN "panic: range end index out of range"
    ELSE "Ok"

IsPanic(r) ==
    r \in {"panic", "panic: attempt to subtract with overflow",
           "panic: range end index out of range"}

\* the forward step of the forward strand that leaves the outgoing base in
blind_next_forward_hash_keeps_out(prev, kk, char_out, char_in) ==
    Xor(srol(prev), SEED_TAB(char_in))

\* blind.rs has its own copies of the four rolling steps
blind_next_forward_hash(prev, kk, char_out, char_in) ==
    Xor(Xor(srol(prev), SEED_TAB(char_in)), srol_table(char_out, kk))

\* the backward step of the forward strand rotating the incoming seed by k - 1
blind_prev_forward_hash_short(prev, kk, char_out, char_in) ==
    sror(Xor(Xor(prev, srol_table(char_in, kk - 1)), SEED_TAB(char_out)))

blind_prev_forward_hash(prev, kk, char_out, char_in) ==
    sror(Xor(Xor(prev, srol_table(char_in, kk)), SEED_TAB(char_out)))

\* the forward step of the reverse strand without the complement of the bytes
blind_next_reverse_hash_nocomp(prev, kk, char_out, char_in) ==
    sror(Xor(Xor(prev, srol_table(char_in, kk)), SEED_TAB(char_out)))

blind_next_reverse_hash(prev, kk, char_out, char_in) ==
    sror(Xor(Xor(prev, srol_table(AndCP(char_in), kk)), SEED_TAB(AndCP(char_out))))

\* the backward step of the reverse strand without the complement of the bytes
blind_prev_reverse_hash_nocomp(prev, kk, char_out, char_in) ==
    Xor(Xor(srol(prev), SEED_TAB(char_in)), srol_table(char_out, kk))

blind_prev_reverse_hash(prev, kk, char_out, char_in) ==
    Xor(Xor(srol(prev), SEED_TAB(AndCP(char_in))), srol_table(AndCP(char_out), kk))

BlindCur == [pos |-> pos, fwd_hash |-> fwd_hash, rev_hash |-> rev_hash,
             hashes |-> hashes, window |-> window, ret |-> FALSE, panic |-> FALSE]

\* BlindNtHash::roll that moves the window but leaves pos alone
blind_roll_pos_kept(s, char_in) ==
    IF s.window = <<>> THEN Panic(s)
    ELSE LET char_out == Head(s.window)
             f == blind_next_forward_hash(s.fwd_hash, k, char_out, char_in)
             r == blind_next_reverse_hash(s.rev_hash, k, char_out, char_in)
         IN [s EXCEPT !.window = Append(Tail(s.window), char_in),
                      !.fwd_hash = f,
                      !.rev_hash = r,
                      !.hashes = extend_hashes(f, r, k, Len(s.hashes)),
                      !.ret = TRUE]

blind_roll(s, char_in) ==
    IF s.window = <<>> THEN Panic(s)
    ELSE LET char_out == Head(s.window)
             f == blind_next_forward_hash(s.fwd_hash, k, char_out, char_in)
             r == blind_next_reverse_hash(s.rev_hash, k, char_out, char_in)
         IN [s EXCEPT !.window = Append(Tail(s.window), char_in),
                      !.fwd_hash = f,
                      !.rev_hash = r,
                      !.hashes = extend_hashes(f, r, k, Len(s.hashes)),
                      !.pos = s.pos + 1,
                      !.ret = TRUE]

\* BlindNtHash::roll_back that writes the buffer but keeps the old accumulators
blind_roll_back_acc_kept(s, char_in) ==
    IF s.window = <<>> THEN Panic(s)
    ELSE LET char_out == s.window[Len(s.window)]
             f == blind_prev_forward_hash(s.fwd_hash, k, char_out, char_in)
             r == blind_prev_reverse_hash(s.rev_hash, k, char_out, char_in)
         IN [s EXCEPT !.window = <<char_in>> \o SubSeq(s.window, 1, Len(s.window) - 1),
                      !.hashes = extend_hashes(f, r, k, Len(s.hashes)),
                      !.pos = s.pos - 1,
                      !.ret = TRUE]

blind_roll_back(s, char_in) ==
    IF s.window = <<>> THEN Panic(s)
    ELSE LET char_out == s.window[Len(s.window)]
             f == blind_prev_forward_hash(s.fwd_hash, k, char_out, char_in)
             r == blind_prev_reverse_hash(s.rev_hash, k, char_out, char_in)
         IN [s EXCEPT !.window = <<char_in>> \o SubSeq(s.window, 1, Len(s.window) - 1),
                      !.fwd_hash = f,
                      !.rev_hash = r,
                      !.hashes = extend_hashes(f, r, k, Len(s.hashes)),
                      !.pos = s.pos - 1,
                      !.ret = TRUE]

\* BlindNtHash::peek that takes the byte at the back of the window as outgoing
blind_peek_back_out(s, char_in) ==
    IF s.window = <<>> THEN Panic(s)
    ELSE LET char_out == s.window[Len(s.window)]
             f == blind_next_forward_hash(s.fwd_hash, k, char_out, char_in)
             r == blind_next_reverse_hash(s.rev_hash, k, char_out, char_in)
         IN [s EXCEPT !.hashes = extend_hashes(f, r, k, Len(s.hashes))]

\* BlindNtHash::peek returns nothing: ret stays FALSE
blind_peek(s, char_in) ==
    IF s.window = <<>> THEN Panic(s)
    ELSE LET char_out == Head(s.window)
             f == blind_next_forward_hash(s.fwd_hash, k, char_out, char_in)
             r == blind_next_reverse_hash(s.rev_hash, k, char_out, char_in)
         IN [s EXCEPT !.hashes = extend_hashes(f, r, k, Len(s.hashes))]

blind_peek_back(s, char_in) ==
    IF s.window = <<>> THEN Panic(s)
    ELSE LET char_out == s.window[Len(s.window)]
             f == blind_prev_forward_hash(s.fwd_hash, k, char_out, char_in)
             r == blind_prev_reverse_hash(s.rev_hash, k, char_out, char_in)
         IN [s EXCEPT !.hashes = extend_hashes(f, r, k, Len(s.hashes))]

BlindStore(s, name) ==
    /\ pos' = s.pos
    /\ fwd_hash' = s.fwd_hash
    /\ rev_hash' = s.rev_hash
    /\ hashes' = s.hashes
    /\ window' = s.window
    /\ ret' = s.ret
    /\ panicked' = s.panic
    /\ op' = name

\* the fields set by a successful BlindNtHash::new
BlindConstruct(r) ==
    IF r = "Ok"
    THEN LET slice == SubSeq(seq, start_pos + 1, start_pos + k)
             f == base_forward_hash(slice, k)
             v == base_reverse_hash(slice, k)
         IN /\ window' = slice
            /\ fwd_hash' = f
            /\ rev_hash' = v
            /\ hashes' = extend_hashes(f, v, k, num_hashes)
            /\ pos' = start_pos
    ELSE UNCHANGED <<window, fwd_hash, rev_hash, hashes, pos>>

\* BlindNtHashBuilder::finish
BlindBuilderFinish ==
    /\ mode = "blinditer"
    /\ res = "none"
    /\ LET r == blind_new(seq, k, start_pos, overflow_checks)
       IN /\ res' = r
          /\ BlindConstruct(r)
          /\ panicked' = IsPanic(r)
          /\ end' = IF r = "Ok" THEN Len(seq) - k ELSE end
          /\ first' = (r = "Ok")
    /\ op' = "new"
    /\ UNCHANGED <<args, initialized, seeds, done, ret, emitted>>

\* BlindNtHashIter::next
BlindIterNext ==
    /\ mode = "blinditer"
    /\ Live
    /\ IF first
       THEN /\ first' = FALSE
            /\ emitted' = Append(emitted, <<pos, hashes>>)
            /\ ret' = TRUE
            /\ op' = "next"
            /\ UNCHANGED <<pos, fwd_hash, rev_hash, hashes, window, panicked>>
       ELSE IF pos >= end
       THEN /\ ret' = FALSE
            /\ op' = "next"
            /\ UNCHANGED <<pos, fwd_hash, rev_hash, hashes, window, panicked,
                           first, emitted>>
       ELSE IF ~InBounds(pos + k)
       THEN /\ panicked' = TRUE
            /\ ret' = FALSE
            /\ op' = "next"
            /\ UNCHANGED <<pos, fwd_hash, rev_hash, hashes, window, first, emitted>>
       ELSE LET s == blind_roll(BlindCur, At(seq, pos + k))
            IN /\ BlindStore(s, "next")
               /\ emitted' = Append(emitted, <<s.pos, s.hashes>>)
               /\ first' = first
    /\ UNCHANGED <<args, res, initialized, seeds, done, end>>

InitBlind ==
    InitArgs("blinditer", BOOLEAN, Seqs(Alphabet, MaxLen) \cup Samples \cup {Sample3},
             (1..MaxK) \cup SampleK, 0..MaxLen, HashCounts, {<<>>})

NextBlind == BlindBuilderFinish \/ BlindIterNext

SpecBlind == InitBlind /\ [][NextBlind]_vars

\* C7: BlindNtHashIter built at start s yields exactly the positions
\* s, s+1, ..., len - k in that order, the first being the constructed window
\* before any roll, whatever bytes the windows hold: what it has yielded is
\* always s, s+1, ... without a gap, the window it holds is the one at pos,
\* and when it has returned None it has yielded len - k - s + 1 items.
C7_BlindIterPositions ==
    (mode = "blinditer" /\ res = "Ok") =>
        /\ \A i \in 1..Len(emitted) : Positions[i] = start_pos + i - 1
        /\ Len(emitted) <= Len(seq) - k - start_pos + 1
        /\ first => emitted = <<>>
        /\ ~first => (Len(emitted) >= 1 /\ pos = start_pos + Len(emitted) - 1)
        /\ window = SubSeq(seq, pos + 1, pos + k)
        /\ (op = "next" /\ ~ret) => Len(emitted) = Len(seq) - k - start_pos + 1

\* the iterator over ATCGTACGNNNNNNNNATGCTGACG with k = 6 has ended after 20 items
C7_Witness ==
    /\ mode = "blinditer"
    /\ op = "next"
    /\ ~ret
    /\ seq = Sample2
    /\ k = 6
    /\ start_pos = 0
    /\ Len(emitted) = 20

\* ------------------------------------------------------------------------
\* The constructors on arbitrary arguments
\* ------------------------------------------------------------------------
\* SeedNtHash::new
SeedNew ==
    /\ mode = "seed"
    /\ res = "none"
    /\ LET r == seed_new(seq, seed_masks, k, start_pos)
       IN /\ res' = r.err
          /\ seeds' = r.seeds
          /\ pos' = IF r.err = "Ok" THEN start_pos ELSE pos
          /\ hashes' = IF r.err = "Ok"
                       THEN [i \in 1..(Len(seed_masks) * seed_num_hashes) |-> {}]
                       ELSE hashes
    /\ op' = "new"
    /\ UNCHANGED <<args, initialized, fwd_hash, rev_hash, window, done,
                   first, end, ret, emitted, panicked>>

\* BlindNtHash::new
BlindNew ==
    /\ mode = "blind"
    /\ res = "none"
    /\ LET r == blind_new(seq, k, start_pos, overflow_checks)
       IN /\ res' = r
          /\ BlindConstruct(r)
          /\ panicked' = IsPanic(r)
    /\ op' = "new"
    /\ UNCHANGED <<args, initialized, seeds, done, first, end, ret, emitted>>

\* SeedNtHash::from_care_indices testing `i > k` instead of `i >= k`
from_care_indices_gt(s, care, kk, p) ==
    IF \E i \in 1..Len(care) : \E j \in 1..Len(care[i]) : care[i][j] > kk
    THEN [err |-> "InvalidWindowOffsets", seeds |-> <<>>]
    ELSE [err |-> seed_new(s, [i \in 1..Len(care) |-> [j \in 1..kk |-> Byte0]],
                           kk, p).err,
          seeds |-> care]

\* [err, seeds]: result of SeedNtHash::from_care_indices; the dummy masks
\* handed to SeedNtHash::new are Len(care) strings of k '0' characters
from_care_indices(s, care, kk, p) ==
    IF \E i \in 1..Len(care) : \E j \in 1..Len(care[i]) : care[i][j] >= kk
    THEN [err |-> "InvalidWindowOffsets", seeds |-> <<>>]
    ELSE [err |-> seed_new(s, [i \in 1..Len(care) |-> [j \in 1..kk |-> Byte0]],
                           kk, p).err,
          seeds |-> care]

\* the fields of a SeedNtHash after a constructor returned r = [err, seeds]
\* for n seeds
SeedConstruct(r, n) ==
    /\ res' = r.err
    /\ seeds' = IF r.err = "Ok" THEN r.seeds ELSE seeds
    /\ pos' = IF r.err = "Ok" THEN start_pos ELSE pos
    /\ hashes' = IF r.err = "Ok" THEN [i \in 1..(n * seed_num_hashes) |-> {}]
                 ELSE hashes

\* SeedNtHash::from_care_indices; the care lists are passed in seed_masks
SeedFromCare ==
    /\ mode = "seedcare"
    /\ res = "none"
    /\ SeedConstruct(from_care_indices(seq, seed_masks, k, start_pos),
                     Len(seed_masks))
    /\ op' = "new"
    /\ UNCHANGED <<args, initialized, fwd_hash, rev_hash, window, done,
                   first, end, ret, emitted, panicked>>

\* care-index lists of length up to MaxK with indices up to MaxK
Cares == UNION {[1..m -> 0..MaxK] : m \in 0..MaxK}

\* no seed, one seed, or two seeds the second of which is short
CareLists ==
    {<<>>} \cup {<<a>> : a \in Cares}
           \cup {<<a, b>> : a \in Cares, b \in {<<>>, <<0>>, <<MaxK>>}}

MaskBytes == {Byte0, Byte1, ByteX}

Masks(n) == UNION {[1..m -> MaskBytes] : m \in 0..n}

InitNew ==
    \/ InitArgs("nt", {TRUE}, Seqs({ByteA, ByteN}, MaxLen), 0..MaxK,
                0..(MaxLen + 1), {1}, {<<>>})
    \/ InitArgs("seed", {TRUE}, Seqs({ByteA}, MaxLen), 0..MaxK,
                0..(MaxLen + 1), {1}, MaskLists(Masks(MaxK)))
    \/ InitArgs("blind", BOOLEAN, Seqs({ByteA, ByteN}, MaxLen), 0..MaxK,
                (-1)..(MaxLen + 1), {1}, {<<>>})
    \/ InitArgs("seedcare", {TRUE}, Seqs({ByteA}, MaxLen), 0..MaxK,
                0..(MaxLen + 1), HashCounts, CareLists)

NextNew == NtNew \/ SeedNew \/ BlindNew \/ SeedFromCare

SpecNew == InitNew /\ [][NextNew]_vars

\* a mask of length k over '0' and '1'
WellFormed(mask) ==
    /\ Len(mask) = k
    /\ \A i \in 1..Len(mask) : mask[i] \in {Byte0, Byte1}

HasBadByte(mask) == \E i \in 1..Len(mask) : mask[i] \notin {Byte0, Byte1}

\* the constructor got past the tests of k, len(seq) and the start position
ArgsInRange == k > 0 /\ Len(seq) >= k /\ start_pos <= Len(seq) - k

\* C8: NtHash::new and SeedNtHash::new (with well-formed masks) return
\* InvalidK iff k = 0; otherwise SequenceTooShort iff len(seq) < k; otherwise
\* PositionOutOfRange iff pos > len(seq) - k; otherwise Ok with pos the given
\* start and the hasher not initialized; no subtraction underflows.
C8_ConstructorErrors ==
    (op = "new" /\ mode \in {"nt", "seed"}
       /\ \A i \in 1..Len(seed_masks) : WellFormed(seed_masks[i])) =>
        /\ res = "InvalidK" <=> k = 0
        /\ res = "SequenceTooShort" <=> (k > 0 /\ Len(seq) < k)
        /\ res = "PositionOutOfRange" <=>
              (k > 0 /\ Len(seq) >= k /\ start_pos > Len(seq) - k)
        /\ res = "Ok" <=> ArgsInRange
        /\ res = "Ok" => (pos = start_pos /\ ~initialized)
        /\ ~IsPanic(res)

\* SeedNtHash::new with two well-formed masks has refused a start position
\* one past the last window
C8_Witness ==
    /\ op = "new"
    /\ mode = "seed"
    /\ Len(seed_masks) = 2
    /\ \A i \in 1..Len(seed_masks) : WellFormed(seed_masks[i])
    /\ start_pos = Len(seq) - k + 1
    /\ res = "PositionOutOfRange"

\* C9: BlindNtHash::new and BlindNtHashBuilder::finish given k > 0 and
\* len(seq) < k return the error SequenceTooShort as a value, for every pos.
C9_BlindSequenceTooShort ==
    (op = "new" /\ mode \in {"blind", "blinditer"} /\ k > 0 /\ Len(seq) < k) =>
        res = "SequenceTooShort"

\* C10 as stated: with k, len(seq) and start in range, SeedNtHash::new returns
\* InvalidSequence iff every mask has length k and some mask holds a byte
\* other than '0' and '1'.
C10_AsStated ==
    (op = "new" /\ mode = "seed" /\ ArgsInRange) =>
        (res = "InvalidSequence" <=>
            /\ \A i \in 1..Len(seed_masks) : Len(seed_masks[i]) = k
            /\ \E i \in 1..Len(seed_masks) : HasBadByte(seed_masks[i]))

\* the masks before the i-th are well-formed and the i-th is not
FirstOffending(i) ==
    /\ i \in 1..Len(seed_masks)
    /\ ~WellFormed(seed_masks[i])
    /\ \A j \in 1..(i - 1) : WellFormed(seed_masks[j])

\* C10 amended: with k, len(seq) and start in range, SeedNtHash::new returns
\* InvalidSequence iff the first mask in list order that is not a well-formed
\* mask of length k has length k (and so holds a byte other than '0' and
\* '1'), and InvalidK iff that first offending mask has another length,
\* whatever its characters and whatever the later masks are.
C10_FirstOffendingMask ==
    (op = "new" /\ mode = "seed" /\ ArgsInRange) =>
        /\ res = "InvalidSequence" <=>
              \E i \in 1..Len(seed_masks) :
                  FirstOffending(i) /\ Len(seed_masks[i]) = k
        /\ res = "InvalidK" <=>
              \E i \in 1..Len(seed_masks) :
                  FirstOffending(i) /\ Len(seed_masks[i]) # k
        /\ res = "Ok" <=> \A i \in 1..Len(seed_masks) : WellFormed(seed_masks[i])

\* InvalidSequence was returned for a first mask of length k with a bad byte
\* although the second mask has another length and bad bytes of its own
C10_Witness ==
    /\ op = "new"
    /\ mode = "seed"
    /\ ArgsInRange
    /\ res = "InvalidSequence"
    /\ Len(seed_masks) = 2
    /\ Len(seed_masks[1]) = k
    /\ HasBadByte(seed_masks[1])
    /\ Len(seed_masks[2]) # k
    /\ HasBadByte(seed_masks[2])

\* C11: SeedNtHash::from_care_indices returns InvalidWindowOffsets iff some
\* provided care index is >= k; when none is, it returns what SeedNtHash::new
\* returns for the same seq, k and start (InvalidK, SequenceTooShort,
\* PositionOutOfRange, or Ok with pos the start, not initialized, a buffer of
\* one slot per seed and hash), and on Ok the seeds are the provided care
\* lists, unchanged.
C11_FromCareIndices ==
    (op = "new" /\ mode = "seedcare") =>
        LET out == \E i \in 1..Len(seed_masks) : \E j \in 1..Len(seed_masks[i]) :
                       seed_masks[i][j] >= k
        IN /\ res = "InvalidWindowOffsets" <=> out
           /\ ~out =>
                /\ res = "InvalidK" <=> k = 0
                /\ res = "SequenceTooShort" <=> (k > 0 /\ Len(seq) < k)
                /\ res = "PositionOutOfRange" <=>
                      (k > 0 /\ Len(seq) >= k /\ start_pos > Len(seq) - k)
                /\ res = "Ok" <=> ArgsInRange
           /\ res = "Ok" =>
                /\ seeds = seed_masks
                /\ pos = start_pos
                /\ ~initialized
                /\ Len(hashes) = Len(seed_masks) * Max(num_hashes, 1)

\* a care index equal to k, the smallest one out of range, has been refused
\* although the other arguments are in range
C11_Witness ==
    /\ op = "new"
    /\ mode = "seedcare"
    /\ ArgsInRange
    /\ seed_masks = <<<<0, k>>, <<0>>>>
    /\ res = "InvalidWindowOffsets"

\* ------------------------------------------------------------------------
\* The operations of NtHash and BlindNtHash called in any order
\* ------------------------------------------------------------------------
\* bytes fed to the blind hasher: one base, one ambiguous byte
RollBytes == {ByteC, ByteN}

BlindFrame == UNCHANGED <<args, res, initialized, seeds, done, first, end, emitted>>

\* BlindNtHash::roll; the caller rolls at most MaxRolls bases past the start
BlindRoll ==
    /\ mode = "blind"
    /\ Live
    /\ pos < start_pos + MaxRolls
    /\ \E c \in RollBytes : BlindStore(blind_roll(BlindCur, c), "roll")
    /\ BlindFrame

\* BlindNtHash::roll_back; at most MaxRolls bases before the start
BlindRollBack ==
    /\ mode = "blind"
    /\ Live
    /\ pos > start_pos - MaxRolls
    /\ \E c \in RollBytes : BlindStore(blind_roll_back(BlindCur, c), "roll_back")
    /\ BlindFrame

BlindPeek ==
    /\ mode = "blind"
    /\ Live
    /\ \E c \in RollBytes : BlindStore(blind_peek(BlindCur, c), "peek")
    /\ BlindFrame

BlindPeekBack ==
    /\ mode = "blind"
    /\ Live
    /\ \E c \in RollBytes : BlindStore(blind_peek_back(BlindCur, c), "peek_back")
    /\ BlindFrame

OpsAlphabet == {ByteA, ByteC, ByteN}

InitOps ==
    \/ InitArgs("nt", {TRUE}, Seqs(OpsAlphabet, MaxLen) \cup {Sample1},
                (1..MaxK) \cup SampleK, 0..MaxLen, HashCounts, {<<>>})
    \/ InitArgs("blind", {TRUE}, Seqs({ByteA, ByteN}, MaxLen), 1..MaxK,
                0..MaxLen, HashCounts, {<<>>})

NextOps ==
    \/ NtNew
    \/ Roll
    \/ RollBack
    \/ Peek
    \/ PeekChar
    \/ PeekBack
    \/ PeekBackChar
    \/ BlindNew
    \/ BlindRoll
    \/ BlindRollBack
    \/ BlindPeek
    \/ BlindPeekBack

SpecOps == InitOps /\ [][NextOps]_vars

\* an initialized NtHash at a position before the last one, whose next
\* incoming byte is unambiguous
CanRoll ==
    /\ mode = "nt"
    /\ Live
    /\ initialized
    /\ pos < Len(seq) - k
    /\ ~Ambiguous(At(seq, pos + k))

\* the hasher b has the position, the accumulators and the buffer of the
\* current state
SameAsNow(b) ==
    /\ ~b.panic
    /\ b.pos = pos
    /\ b.fwd_hash = fwd_hash
    /\ b.rev_hash = rev_hash
    /\ b.hashes = hashes

\* the hasher b has the position and the accumulators of the current state,
\* and its buffer holds the hashes derived from them
SameAccAsNow(b) ==
    /\ ~b.panic
    /\ b.ret
    /\ b.pos = pos
    /\ b.fwd_hash = fwd_hash
    /\ b.rev_hash = rev_hash
    /\ b.hashes = extend_hashes(fwd_hash, rev_hash, k, num_hashes)

\* the buffer holds the hashes of the current window (no peek has
\* overwritten it)
BufferCurrent == hashes = extend_hashes(fwd_hash, rev_hash, k, num_hashes)

\* C12 as stated: roll then roll_back restores pos, fwd_hash, rev_hash and
\* hashes (and, in blind mode, roll(c) then roll_back(evicted byte) also the
\* window), from every state in which the forward roll applies.
C12_AsStated ==
    /\ CanRoll => SameAsNow(roll_back(roll(NtCur)))
    /\ (mode = "blind" /\ Live) =>
          \A c \in Alphabet :
              /\ SameAsNow(blind_roll_back(blind_roll(BlindCur, c), Head(window)))
              /\ blind_roll_back(blind_roll(BlindCur, c), Head(window)).window = window

\* C12 amended: roll then roll_back restores pos, fwd_hash and rev_hash (and
\* the window in blind mode) and leaves in the buffer the hashes of the
\* restored window; the buffer is the one held before exactly when it held
\* the hashes of the current window, i.e. when no peek had overwritten it.
C12_RollThenRollBack ==
    /\ CanRoll =>
          /\ roll(NtCur).ret
          /\ roll(NtCur).pos = pos + 1
          /\ SameAccAsNow(roll_back(roll(NtCur)))
          /\ BufferCurrent <=> SameAsNow(roll_back(roll(NtCur)))
    /\ (mode = "blind" /\ Live) =>
          \A c \in Alphabet :
              /\ SameAccAsNow(blind_roll_back(blind_roll(BlindCur, c), Head(window)))
              /\ blind_roll_back(blind_roll(BlindCur, c), Head(window)).window = window
              /\ BufferCurrent <=>
                    SameAsNow(blind_roll_back(blind_roll(BlindCur, c), Head(window)))

\* roll from position 5 of ACGTNACGTACGT and roll_back from position 6 have
\* brought a hasher with k = 4 back to position 5, from where it can roll
C12_Witness ==
    /\ CanRoll
    /\ op = "roll_back"
    /\ ret
    /\ seq = Sample1
    /\ k = 4
    /\ start_pos = 0
    /\ pos = 5
    /\ num_hashes = 1
    /\ BufferCurrent

\* ------------------------------------------------------------------------
\* The standard and the blind iterator side by side
\* ------------------------------------------------------------------------
\* a freshly constructed NtHash for the arguments of the current behaviour
NtFresh == [pos |-> start_pos, initialized |-> FALSE, fwd_hash |-> {},
            rev_hash |-> {}, hashes |-> [i \in 1..num_hashes |-> {}],
            ret |-> FALSE, panic |-> FALSE]

\* the items NtHashIter yields from hasher s on, each with the accumulators
\* the hasher holds when it is yielded: next() calls roll() until it fails
RECURSIVE NtIterRun(_, _)
RECURSIVE NtIterCollect(_, _)
NtIterRun(s, acc) == NtIterCollect(roll(s), acc)

NtIterCollect(t, acc) ==
    IF t.ret /\ ~t.panic
    THEN NtIterRun(t, Append(acc, [pos |-> t.pos, hashes |-> t.hashes,
                                   fwd_hash |-> t.fwd_hash, rev_hash |-> t.rev_hash]))
    ELSE acc

NoAmbiguous(s) == \A i \in 1..Len(s) : ~Ambiguous(s[i])

\* the first n items of the standard iterator are the items in `emitted`, and
\* the n-th was yielded with the accumulators of the current state
AgreesWith(items, n) ==
    /\ n <= Len(items)
    /\ \A i \in 1..n : emitted[i] = <<items[i].pos, items[i].hashes>>
    /\ (n >= 1 /\ ~first) =>
          /\ items[n].pos = pos
          /\ items[n].fwd_hash = fwd_hash
          /\ items[n].rev_hash = rev_hash
          /\ items[n].hashes = hashes

\* C13: on a sequence without ambiguous byte, for the same k, num_hashes and
\* start, BlindNtHashIter yields item by item what NtHashIter yields, with
\* equal pos, fwd_hash, rev_hash and hashes at every emission, and when it
\* has returned None it has yielded the whole list of NtHashIter.
C13_BlindEqualsStandard ==
    (mode = "blinditer" /\ res = "Ok" /\ NoAmbiguous(seq)) =>
        /\ nt_new(seq, k, start_pos) = "Ok"
        /\ AgreesWith(NtIterRun(NtFresh, <<>>), Len(emitted))
        /\ (op = "next" /\ ~ret) =>
              Len(emitted) = Len(NtIterRun(NtFresh, <<>>))

\* both iterators have yielded the 20 windows of ATCGTACGATGCATGCATGCTGACG
\* for k = 6 and the blind one has returned None
C13_Witness ==
    /\ mode = "blinditer"
    /\ seq = Sample3
    /\ k = 6
    /\ start_pos = 0
    /\ num_hashes = 1
    /\ op = "next"
    /\ ~ret
    /\ Len(emitted) = 20
    /\ Len(NtIterRun(NtFresh, <<>>)) = 20

\* ------------------------------------------------------------------------
\* The spaced-seed hasher with a mask of k '1' characters
\* ------------------------------------------------------------------------
\* the window of k bytes at position p
WindowAt(p) == SubSeq(seq, p + 1, p + k)

\* C14: on a sequence without ambiguous byte, SeedNtHashIter built with the
\* single mask of k '1' characters yields the positions NtHashIter yields for
\* the same k, start and num_hashes = n, each with the same n hash values
\* (SeedNtHash raises a count of 0 to 1, so for n = 0 it holds one more value,
\* the canonical hash); at each of them compute_pair over all k positions
\* gives base_forward_hash and base_reverse_hash of the window.
C14_AllOnesMaskEqualsStandard ==
    (mode = "seediter" /\ res = "Ok" /\ seed_masks = <<OnesMask(k)>>
       /\ NoAmbiguous(seq)) =>
        /\ Len(emitted) <= Len(NtIterRun(NtFresh, <<>>))
        /\ \A i \in 1..Len(emitted) :
              /\ emitted[i][1] = NtIterRun(NtFresh, <<>>)[i].pos
              /\ SubSeq(emitted[i][2], 1, num_hashes) =
                    NtIterRun(NtFresh, <<>>)[i].hashes
              /\ Len(emitted[i][2]) = Max(num_hashes, 1)
        /\ done => Len(emitted) = Len(NtIterRun(NtFresh, <<>>))
        /\ (op = "next" /\ ret) =>
              /\ compute_pair(WindowAt(pos), seeds[1], 1, {}, {}) =
                    <<base_forward_hash(WindowAt(pos), k),
                      base_reverse_hash(WindowAt(pos), k)>>
              /\ hashes = extend_hashes(base_forward_hash(WindowAt(pos), k),
                                        base_reverse_hash(WindowAt(pos), k),
                                        k, Max(num_hashes, 1))

\* the spaced-seed iterator with mask 1111111 has yielded the last of the 19
\* windows of ATCGTACGATGCATGCATGCTGACG
C14_Witness ==
    /\ mode = "seediter"
    /\ seq = Sample3
    /\ k = 7
    /\ seed_masks = <<OnesMask(7)>>
    /\ start_pos = 0
    /\ num_hashes = 1
    /\ op = "next"
    /\ ret
    /\ pos = 18
    /\ Len(emitted) = 19

\* ------------------------------------------------------------------------
\* The base hashes of single k-mers
\* ------------------------------------------------------------------------
Bases == {ByteA, ByteC, ByteG, ByteT}

\* windows of ATCGTACGATGCATGCATGCTGACG of 4 to 8 bases
LongKmers == {SubSeq(Sample3, p + 1, p + kk) : p \in {0, 5, 13}, kk \in LongK \cup {8}}

\* every k-mer of up to MaxLen bases, and some long ones
Kmers == (Seqs(Bases, MaxLen) \ {<<>>}) \cup LongKmers

KmerHashCounts == {0, 1, 3}

InitKmer ==
    \E w \in Kmers :
        InitArgs("kmer", {TRUE}, {w}, {Len(w)}, {0}, KmerHashCounts, {<<>>})

\* the hashes NtHash::init computes for the window seq[0..k]
BaseHash ==
    /\ mode = "kmer"
    /\ op = "none"
    /\ fwd_hash' = base_forward_hash(seq, k)
    /\ rev_hash' = base_reverse_hash(seq, k)
    /\ hashes' = extend_hashes(base_forward_hash(seq, k), base_reverse_hash(seq, k),
                               k, num_hashes)
    /\ op' = "base_hash"
    /\ UNCHANGED <<args, res, pos, initialized, seeds, window, done, first, end,
                   ret, emitted, panicked>>

NextKmer == BaseHash

SpecKmer == InitKmer /\ [][NextKmer]_vars

\* the complement of a base: A <-> T, C <-> G
Complement(c) ==
    CASE c = ByteA -> ByteT
      [] c = ByteT -> ByteA
      [] c = ByteC -> ByteG
      [] c = ByteG -> ByteC
      [] OTHER -> c

\* the reverse complement of a k-mer
RevComp(w) == [i \in 1..Len(w) |-> Complement(w[Len(w) + 1 - i])]

\* C15: for every k-mer w without ambiguous byte, the forward hash of the
\* reverse complement rc(w) is the reverse hash of w and the reverse hash of
\* rc(w) is the forward hash of w, so that the canonical hash and the whole
\* hashes buffer are the same for w and rc(w).
C15_StrandSymmetry ==
    (mode = "kmer" /\ op = "base_hash") =>
        /\ base_forward_hash(RevComp(seq), k) = rev_hash
        /\ base_reverse_hash(RevComp(seq), k) = fwd_hash
        /\ canonical(base_forward_hash(RevComp(seq), k),
                     base_reverse_hash(RevComp(seq), k)) = canonical(fwd_hash, rev_hash)
        /\ extend_hashes(base_forward_hash(RevComp(seq), k),
                         base_reverse_hash(RevComp(seq), k), k, num_hashes) = hashes

\* the 7-mer ATCGTAC, which is not its own reverse complement, has been hashed
\* into three values
C15_Witness ==
    /\ mode = "kmer"
    /\ op = "base_hash"
    /\ seq = SubSeq(Sample3, 1, 7)
    /\ RevComp(seq) # seq
    /\ fwd_hash # rev_hash
    /\ num_hashes = 3
    /\ Len(hashes) = 3

\* ------------------------------------------------------------------------
\* What the peek operations leave alone
\* ------------------------------------------------------------------------
PeekOps == {"peek", "peek_char", "peek_back", "peek_back_char"}

\* C16: a call of NtHash::peek, peek_char, peek_back or peek_back_char, on an
\* initialized hasher or not and whatever it returns, leaves pos, fwd_hash,
\* rev_hash and initialized as they were.
C16_PeekLeavesState ==
    [][(mode = "nt" /\ op' \in PeekOps) =>
          /\ pos' = pos
          /\ fwd_hash' = fwd_hash
          /\ rev_hash' = rev_hash
          /\ initialized' = initialized]_vars

\* hasher b differs from the current blind hasher at most in its buffer,
\* which is the buffer of hasher r
PeekedLike(b, r) ==
    /\ ~b.panic
    /\ b.window = window
    /\ b.pos = pos
    /\ b.fwd_hash = fwd_hash
    /\ b.rev_hash = rev_hash
    /\ b.hashes = r.hashes

\* C17: in every state of a BlindNtHash and for every byte c, peek(c) and
\* peek_back(c) leave the window, pos, fwd_hash and rev_hash unchanged and
\* write into the buffer the values roll(c), respectively roll_back(c), would
\* leave there from the same state.
C17_BlindPeek ==
    (mode = "blind" /\ Live) =>
        \A c \in Alphabet :
            /\ PeekedLike(blind_peek(BlindCur, c), blind_roll(BlindCur, c))
            /\ PeekedLike(blind_peek_back(BlindCur, c), blind_roll_back(BlindCur, c))

\* peek(C) has just filled the buffer of a hasher whose window of two bytes
\* has different ends, with the hash of the window roll(C) would produce
C17_Witness ==
    /\ mode = "blind"
    /\ Live
    /\ op = "peek"
    /\ k = 2
    /\ window[1] # window[2]
    /\ num_hashes = 1
    /\ hashes # extend_hashes(fwd_hash, rev_hash, k, num_hashes)
    /\ hashes = extend_hashes(
                    base_forward_hash(<<window[2], ByteC>>, k),
                    base_reverse_hash(<<window[2], ByteC>>, k), k, num_hashes)

\* ------------------------------------------------------------------------
\* The three iterators
\* ------------------------------------------------------------------------
InitIter ==
    \/ InitArgs("ntiter", {TRUE}, Seqs(Alphabet, MaxLen) \cup Samples,
                (1..MaxK) \cup SampleK, 0..MaxLen, HashCounts, {<<>>})
    \/ InitSeed
    \/ InitBlind

NextIter ==
    \/ NtBuilderFinish
    \/ NtIterNext
    \/ SeedBuilderFinish
    \/ SeedIterNext
    \/ BlindBuilderFinish
    \/ BlindIterNext

SpecIter == InitIter /\ [][NextIter]_vars

\* C18: an iterator over a sequence of len bytes, built with start s, yields
\* at most len - k - s + 1 items, each next() either yielding an item or
\* returning None, so that None is returned within len - k - s + 2 calls; and
\* a next() that follows a next() which returned None returns None as well
\* and yields nothing.
C18_IteratorsTerminate ==
    [][(op' = "next") =>
          /\ ~panicked'
          /\ Len(emitted') <= Len(seq) - k - start_pos + 1
          /\ ret' <=> Len(emitted') = Len(emitted) + 1
          /\ ~ret' <=> emitted' = emitted
          /\ (op = "next" /\ ~ret) => ~ret']_vars

\* the standard iterator over ACGTNACGTACGT with k = 4, having yielded its 6
\* windows, has returned None
C18_Witness ==
    /\ mode = "ntiter"
    /\ seq = Sample1
    /\ k = 4
    /\ start_pos = 0
    /\ op = "next"
    /\ ~ret
    /\ done
    /\ Len(emitted) = 6

XorCP(c) == c - (c % (CP_OFF + 1)) + (CP_OFF - (c % (CP_OFF + 1)))

\* a step of NtHash::roll that rolled one base in (no initialisation, no skip)
NtRolled == mode = "nt" /\ initialized /\ op' = "roll" /\ ret' /\ pos' = pos + 1

\* a step of NtHash::roll_back that rolled one base back
NtRolledBack == mode = "nt" /\ initialized /\ op' = "roll_back" /\ ret' /\ pos' = pos - 1

BlindRolled == mode = "blind" /\ res = "Ok" /\ op' = "roll" /\ ~panicked'

BlindRolledBack == mode = "blind" /\ res = "Ok" /\ op' = "roll_back" /\ ~panicked'

\* the accumulators after the step are the forward formulas of outgoing byte o
\* and incoming byte i, the complement strand being looked up at co and ci
StepForward(o, i, co, ci) ==
    /\ fwd_hash' = Xor(Xor(srol(fwd_hash), SEED_TAB(i)), srol_table(o, k))
    /\ rev_hash' = sror(Xor(Xor(rev_hash, srol_table(ci, k)), SEED_TAB(co)))

StepBackward(o, i, co, ci) ==
    /\ fwd_hash' = sror(Xor(Xor(fwd_hash, srol_table(i, k)), SEED_TAB(o)))
    /\ rev_hash' = Xor(Xor(srol(rev_hash), SEED_TAB(ci)), srol_table(co, k))

\* every rolling step of both hashers follows the formulas with the complement
\* index comp(byte)
RollingSteps(comp(_)) ==
    /\ NtRolled =>
          StepForward(At(seq, pos), At(seq, pos + k),
                      comp(At(seq, pos)), comp(At(seq, pos + k)))
    /\ NtRolledBack =>
          StepBackward(At(seq, pos + k - 1), At(seq, pos - 1),
                       comp(At(seq, pos + k - 1)), comp(At(seq, pos - 1)))
    /\ BlindRolled =>
          StepForward(Head(window), window'[Len(window')],
                      comp(Head(window)), comp(window'[Len(window')]))
    /\ BlindRolledBack =>
          StepBackward(window[Len(window)], Head(window'),
                       comp(window[Len(window)]), comp(Head(window')))

\* C20 as stated: the forward step computes srol(fwd) XOR SEED_TAB[i] XOR
\* srol_table(o, k) and sror(rev XOR srol_table(i XOR CP_OFF, k) XOR
\* SEED_TAB[o XOR CP_OFF]), the complement index being the raw byte XOR CP_OFF,
\* and symmetrically for the backward step.
C20_AsStated == [][RollingSteps(XorCP)]_vars

\* C20: the rolling steps of the standard and blind hashers compute the stated
\* formulas with the complement table index being the raw byte AND CP_OFF:
\* rev_new = sror(rev XOR srol_table(i & CP_OFF, k) XOR SEED_TAB[o & CP_OFF])
\* forward, rev_new = srol(rev) XOR SEED_TAB[i & CP_OFF] XOR
\* srol_table(o & CP_OFF, k) backward; the forward-strand formulas are as stated.
C20_RollingStep == [][RollingSteps(AndCP)]_vars

\* the blind hasher has rolled back over a real base
C20_Witness ==
    /\ mode = "blind"
    /\ op = "roll_back"
    /\ ~panicked
    /\ pos = start_pos - 1
    /\ Head(window) = ByteC
    /\ k = 2

\* ------------------------------------------------------------------------
\* Rolling backward
\* ------------------------------------------------------------------------
\* C21: NtHash::roll_back moves the window backward: whenever it returns true,
\* pos after the call is strictly smaller than pos before it (pos - 1 when
\* seq[pos-1] is unambiguous; when seq[pos-1] is ambiguous, a valid window
\* before the ambiguous base), and it returns false without moving when pos = 0.
C21_RollBackMovesBack ==
    [][(mode = "nt" /\ op' = "roll_back" /\ ~panicked') =>
          /\ ret' => pos' < pos
          /\ (ret' /\ initialized /\ pos > 0 /\ ~Ambiguous(At(seq, pos - 1))) =>
                pos' = pos - 1
          /\ (ret' /\ initialized /\ pos > 0 /\ Ambiguous(At(seq, pos - 1))) =>
                (ValidWindow(pos') /\ pos' + k <= pos - 1)
          /\ pos = 0 => (~ret' /\ pos' = pos)]_vars

\* ------------------------------------------------------------------------
\* The output buffer of the spaced-seed hasher
\* ------------------------------------------------------------------------
\* the values of seed i in the buffer, n values per seed
SeedSlice(i, n) == SubSeq(hashes, (i - 1) * n + 1, i * n)

\* seed i's slice holds the canonical hash of the seed over the window at pos,
\* followed by the values derived from it
SliceOfSeed(i, n) ==
    LET pr == compute_pair(WindowAt(pos), seeds[i], 1, {}, {})
    IN /\ Len(SeedSlice(i, n)) = n
       /\ n > 0 => SeedSlice(i, n)[1] = canonical(pr[1], pr[2])
       /\ SeedSlice(i, n) = extend_hashes(pr[1], pr[2], k, n)

\* the buffer holds n values per seed, each seed's in its own slice
SeedBuffer(n) ==
    (mode = "seediter" /\ res = "Ok") =>
        /\ Len(hashes) = Len(seeds) * n
        /\ \A i \in 1..Len(emitted) : Len(emitted[i][2]) = Len(seeds) * n
        /\ (op = "next" /\ ret) => \A i \in 1..Len(seeds) : SliceOfSeed(i, n)

\* C22 as stated: for every successfully constructed SeedNtHash the buffer has
\* length exactly len(seeds) * num_hashes_per_seed for the num_hashes_per_seed
\* the caller passed (including 0), seed i's values occupy the slice
\* [i*n, (i+1)*n) with the seed's canonical hash at index i*n, and the length
\* never changes afterwards.
C22_AsStated == SeedBuffer(num_hashes)

\* C22: the buffer of a successfully constructed SeedNtHash has length
\* len(seeds) * max(num_hashes_per_seed, 1): a count of 0 is raised to 1; seed
\* i's values occupy the slice [i*n, (i+1)*n) for that n with the seed's
\* canonical hash at index i*n, and the length never changes afterwards.
C22_SeedBufferLayout == SeedBuffer(Max(num_hashes, 1))

\* two seeds with two values each, computed over the window GA
C22_Witness ==
    /\ mode = "seediter"
    /\ seq = <<ByteA, ByteG, ByteA>>
    /\ k = 2
    /\ num_hashes = 2
    /\ Len(seeds) = 2
    /\ op = "next"
    /\ ret
    /\ pos = 1
    /\ Len(hashes) = 4
    /\ hashes[1] # hashes[3]

\* ------------------------------------------------------------------------
\* The care lists
\* ------------------------------------------------------------------------
\* C23: in every successfully constructed SeedNtHash, whether built by new
\* (from masks) or by from_care_indices, every seed's care list is strictly
\* increasing and every index in it is < k.
C23_CareListsIncreasing ==
    (mode \in {"seed", "seedcare"} /\ res = "Ok") =>
        \A i \in 1..Len(seeds) :
            /\ \A j \in 1..Len(seeds[i]) : 0 <= seeds[i][j] /\ seeds[i][j] < k
            /\ \A j \in 1..(Len(seeds[i]) - 1) : seeds[i][j] < seeds[i][j + 1]

\* ------------------------------------------------------------------------
\* The word primitives and extend_hashes called on their own
\* ------------------------------------------------------------------------
\* every word of one bit, the words of the tests of tables.rs
\* (0x0123456789ABCDEF, 0xFFFFFFFF00000000, 0x00000000FFFFFFFF), the seeds, and
\* words that straddle the two fields
Words ==
    {{i} : i \in WordBits}
        \cup {{}, WordBits, Word16(291, 17767, 35243, 52719),
              {i \in WordBits : i >= 32}, {i \in WordBits : i < 32},
              SEED_A, SEED_C, SEED_G, SEED_T, {0, 32, 63}, {32, 33}, {0, 63},
              MULTISEED}

\* the operands of a call of mode m
InitCall(m, X, Y, D, S, O) ==
    /\ mode = m
    /\ fwd_hash \in X
    /\ rev_hash \in Y
    /\ k \in D
    /\ seq \in S
    /\ hashes \in O
    /\ overflow_checks = TRUE
    /\ num_hashes = 0
    /\ start_pos = 0
    /\ seed_masks = <<>>
    /\ res = "none"
    /\ pos = 0
    /\ initialized = FALSE
    /\ seeds = <<>>
    /\ window = <<>>
    /\ done = FALSE
    /\ first = FALSE
    /\ end = 0
    /\ op = "none"
    /\ ret = FALSE
    /\ emitted = <<>>
    /\ panicked = FALSE

\* srol and sror on every sample word; srol_n with every distance below 64;
\* srol_table with those and with some of the window lengths (u16) the rolling
\* steps pass, for the base bytes and their complement indices; extend_hashes with the operands of its tests and documentation
\* and with words whose sum and products overflow, on buffers that are empty
\* or hold earlier values
InitPure ==
    \/ InitCall("srol", Words, {{}}, {1}, {<<>>}, {<<>>})
    \/ InitCall("sror", Words, {{}}, {1}, {<<>>}, {<<>>})
    \/ InitCall("srol_n", Words, {{}}, 0..63, {<<>>}, {<<>>})
    \/ InitCall("srol_table", {{}}, {{}},
                (0..63) \cup {64, 65, 66, 1022, 1023, 1024, 65535},
                {<<c>> : c \in Alphabet \cup {AndCP(b) : b \in Alphabet}}, {<<>>})
    \/ InitCall("extend_hashes",
                {U64(4660), Word16(4660, 22136, 39612, 57072), WordBits, SEED_A},
                {U64(22136), Word16(4077, 52137, 34661, 17185), U64(1), SEED_T},
                {1, 5, 21, 65535}, {<<>>},
                {<<>>, <<{}>>, <<WordBits, WordBits>>, <<{}, {}, {}, {}>>,
                 [i \in 1..8 |-> {}]})

\* what a call of a word primitive leaves alone; its result goes to rev_hash
CallFrame == UNCHANGED <<args, res, pos, initialized, fwd_hash, hashes, seeds,
                         window, done, first, end, ret, emitted, panicked>>

\* rev_hash = srol(fwd_hash)
Srol ==
    /\ mode = "srol"
    /\ op = "none"
    /\ rev_hash' = srol(fwd_hash)
    /\ op' = "srol"
    /\ CallFrame

\* rev_hash = sror(fwd_hash)
Sror ==
    /\ mode = "sror"
    /\ op = "none"
    /\ rev_hash' = sror(fwd_hash)
    /\ op' = "sror"
    /\ CallFrame

\* rev_hash = srol_n(fwd_hash, k)
SrolN ==
    /\ mode = "srol_n"
    /\ op = "none"
    /\ rev_hash' = srol_n(fwd_hash, k)
    /\ op' = "srol_n"
    /\ CallFrame

\* rev_hash = srol_table(seq[0], k)
SrolTable ==
    /\ mode = "srol_table"
    /\ op = "none"
    /\ rev_hash' = srol_table(At(seq, 0), k)
    /\ op' = "srol_table"
    /\ CallFrame

\* extend_hashes(fwd_hash, rev_hash, k, &mut hashes)
ExtendHashes ==
    /\ mode = "extend_hashes"
    /\ op = "none"
    /\ hashes' = IF hashes = <<>> THEN hashes
                 ELSE extend_hashes(fwd_hash, rev_hash, k, Len(hashes))
    /\ op' = "extend_hashes"
    /\ UNCHANGED <<args, res, pos, initialized, fwd_hash, rev_hash, seeds,
                   window, done, first, end, ret, emitted, panicked>>

NextPure == Srol \/ Sror \/ SrolN \/ SrolTable \/ ExtendHashes

SpecPure == InitPure /\ [][NextPure]_vars


\* ------------------------------------------------------------------------
\* extend_hashes
\* ------------------------------------------------------------------------
\* a + b mod 2^64, bit by bit with a carry
RECURSIVE Sum64From(_, _, _, _)
Sum64From(a, b, i, carry) ==
    IF i > 63 THEN {}
    ELSE LET s == (IF i \in a THEN 1 ELSE 0) + (IF i \in b THEN 1 ELSE 0) + carry
         IN (IF s % 2 = 1 THEN {i} ELSE {}) \cup Sum64From(a, b, i + 1, s \div 2)

Sum64(a, b) == Sum64From(a, b, 0, 0)

\* a * b mod 2^64, column by column: bit j is the parity of the number of pairs
\* of set bits i of a and j - i of b, plus the carry of the lower columns
RECURSIVE Product64From(_, _, _, _)
Product64From(a, b, j, carry) ==
    IF j > 63 THEN {}
    ELSE LET s == Cardinality({i \in 0..j : i \in a /\ (j - i) \in b}) + carry
         IN (IF s % 2 = 1 THEN {j} ELSE {}) \cup Product64From(a, b, j + 1, s \div 2)

Product64(a, b) == Product64From(a, b, 0, 0)

\* t XOR (t >> MULTISHIFT) with t = base * (i XOR (kk * MULTISEED))
Mixed(base, kk, i) ==
    LET t == Product64(base, Xor(U64(i), Product64(U64(kk), MULTISEED)))
    IN Xor(t, Shr(t, MULTISHIFT))

\* C24: extend_hashes(fwd, rev, k, out) leaves an empty out untouched;
\* otherwise out[0] = (fwd + rev) mod 2^64 and for every 1 <= i < len(out):
\* out[i] = t XOR (t >> MULTISHIFT) with t = out[0] * (i XOR (k * MULTISEED)),
\* both multiplications mod 2^64; each out[i] depends only on (fwd + rev, k, i),
\* not on the length of out.
C24_ExtendHashes ==
    [][(op' = "extend_hashes") =>
          /\ Len(hashes') = Len(hashes)
          /\ hashes = <<>> => hashes' = hashes
          /\ \A j \in 1..Len(hashes) :
                hashes'[j] = IF j = 1 THEN Sum64(fwd_hash, rev_hash)
                             ELSE Mixed(Sum64(fwd_hash, rev_hash), k, j - 1)]_vars

\* the eight hashes of the test extend_matches_cpp_reference are computed
C24_Witness ==
    /\ mode = "extend_hashes"
    /\ op = "extend_hashes"
    /\ fwd_hash = Word16(4660, 22136, 39612, 57072)
    /\ rev_hash = Word16(4077, 52137, 34661, 17185)
    /\ k = 21
    /\ Len(hashes) = 8
    /\ hashes[1] = Word16(8738, 8738, 8738, 8721)   \* 0x2222222222222211
    /\ hashes[2] # hashes[1]
    /\ hashes[8] # hashes[2]


\* ------------------------------------------------------------------------
\* The split rotation
\* ------------------------------------------------------------------------
\* where bit i goes when bits 0..32 and bits 33..63 are each rotated left by one
FieldRotL(i) == IF i = 32 THEN 0 ELSE IF i = 63 THEN 33 ELSE i + 1

\* C25: for every 64-bit x, sror(srol(x)) = x and srol(sror(x)) = x: srol is a
\* bijection on 64-bit words that rotates bits 0..32 as one 33-bit field (bit
\* 32 re-enters at bit 0) and bits 33..63 as one 31-bit field (bit 63
\* re-enters at bit 33), and sror is its inverse.
C25_SrolSrorInverse ==
    [][/\ (op' = "srol") =>
             /\ rev_hash' = {FieldRotL(i) : i \in fwd_hash}
             /\ sror(rev_hash') = fwd_hash
             /\ \A w \in Words : srol(w) = rev_hash' => w = fwd_hash
       /\ (op' = "sror") =>
             /\ fwd_hash = {FieldRotL(i) : i \in rev_hash'}
             /\ srol(rev_hash') = fwd_hash
             /\ \A w \in Words : sror(w) = rev_hash' => w = fwd_hash]_vars

\* srol has moved bit 32 to bit 0 and bit 63 to bit 33 (0x8000000100000001
\* gives 0x0000000200000003)
C25_Witness ==
    /\ mode = "srol"
    /\ op = "srol"
    /\ fwd_hash = {0, 32, 63}
    /\ rev_hash = {0, 1, 33}


\* ------------------------------------------------------------------------
\* The split rotation by a distance
\* ------------------------------------------------------------------------
\* srol applied d times
RECURSIVE SrolTimes(_, _)
SrolTimes(x, d) ==
    IF d = 0 THEN x
    ELSE LET y == srol(x)
         IN IF y = {} THEN {} ELSE SrolTimes(y, d - 1)

\* C26: for every 64-bit x and every 0 <= d < 64, srol_n(x, d) equals srol
\* applied d times to x; in particular srol_n(x, 0) = x and
\* srol_n(x, d) = srol(srol_n(x, d-1)) for 1 <= d < 64.
C26_SrolNIsIteratedSrol ==
    [][(op' = "srol_n") =>
          /\ rev_hash' = SrolTimes(fwd_hash, k)
          /\ k = 0 => rev_hash' = fwd_hash
          /\ k >= 1 => rev_hash' = srol(srol_n(fwd_hash, k - 1))]_vars


\* ------------------------------------------------------------------------
\* The rotated seeds
\* ------------------------------------------------------------------------
\* where each bit is after d rotations of the two fields by one, by repeated
\* squaring
RECURSIVE FieldRotTimes(_)
FieldRotTimes(d) ==
    IF d = 0 THEN [i \in WordBits |-> i]
    ELSE IF d % 2 = 0
    THEN LET h == FieldRotTimes(d \div 2) IN [i \in WordBits |-> h[h[i]]]
    ELSE LET h == FieldRotTimes(d - 1) IN [i \in WordBits |-> FieldRotL(h[i])]

\* C27: for every base byte c in {A,C,G,T,N} and every rotation distance d that
\* the hashers pass (0 <= d < 64, and also d = k up to 65535 in the rolling
\* updates), srol_table(c, d) = MS_TAB_31L[c][d mod 31] | MS_TAB_33R[c][d mod 33]
\* equals srol applied d times to SEED_TAB[c].
C27_SrolTableIsIteratedSrol ==
    [][(op' = "srol_table") =>
          /\ rev_hash' = {FieldRotTimes(k)[i] : i \in SEED_TAB(At(seq, 0))}
          /\ k <= 66 => rev_hash' = SrolTimes(SEED_TAB(At(seq, 0)), k)]_vars

\* srol_table(4, 33) = 0xF22FEEC995C60474 of the test srol_table_boundaries
C27_Witness ==
    /\ mode = "srol_table"
    /\ op = "srol_table"
    /\ seq = <<4>>
    /\ k = 33
    /\ rev_hash = Word16(61999, 61129, 38342, 1140)


\* ------------------------------------------------------------------------
\* The steps of the blind hasher
\* ------------------------------------------------------------------------
\* h_n of h_0 = 0, h_i = srol(h_{i-1}) XOR SEED_TAB[w[i]] over the n bytes of w
RECURSIVE OneBaseAtATime(_, _)
OneBaseAtATime(w, n) ==
    IF n = 0 THEN {}
    ELSE LET h == OneBaseAtATime(w, n - 1)
         IN IF h = {} THEN SEED_TAB(w[n]) ELSE Xor(srol(h), SEED_TAB(w[n]))

\* the accumulators are the one-base-at-a-time hashes of the window and of its
\* complemented reversal
MatchesWindow(w, fwd, rev) ==
    /\ fwd = OneBaseAtATime(w, Len(w))
    /\ rev = OneBaseAtATime(RevComp(w), Len(w))

\* C28: BlindNtHash::roll(c) always returns true, drops the first byte of the
\* window, appends c, and increases pos by exactly 1; roll_back(c) always
\* returns true, drops the last byte, prepends c, and decreases pos by exactly
\* 1 (pos may become negative); in every reachable state the window holds
\* exactly k bytes, and if fwd_hash / rev_hash matched the one-base-at-a-time
\* definition for the old window, they match it for the new window.
C28_BlindSteps ==
    [][/\ (mode = "blind" /\ op' = "roll") =>
             /\ ret' /\ ~panicked'
             /\ Len(window') = k
             /\ SubSeq(window', 1, k - 1) = Tail(window)
             /\ window'[k] \in RollBytes
             /\ pos' = pos + 1
             /\ MatchesWindow(window, fwd_hash, rev_hash) =>
                   MatchesWindow(window', fwd_hash', rev_hash')
       /\ (mode = "blind" /\ op' = "roll_back") =>
             /\ ret' /\ ~panicked'
             /\ Len(window') = k
             /\ Tail(window') = SubSeq(window, 1, k - 1)
             /\ Head(window') \in RollBytes
             /\ pos' = pos - 1
             /\ MatchesWindow(window, fwd_hash, rev_hash) =>
                   MatchesWindow(window', fwd_hash', rev_hash')
       /\ (mode = "blind" /\ res' = "Ok") => Len(window') = k]_vars

\* the window AA at position 0 has been rolled back to CA at position -1, and
\* the accumulators are the hashes of CA
C28_Witness ==
    /\ mode = "blind"
    /\ op = "roll_back"
    /\ start_pos = 0
    /\ pos = -1
    /\ window = <<ByteC, ByteA>>
    /\ MatchesWindow(window, fwd_hash, rev_hash)


\* ------------------------------------------------------------------------
\* The skip of the initialisation
\* ------------------------------------------------------------------------
\* the indices of the ambiguous bytes of the window at p
AmbiguousIn(p) == {i \in 0..(k - 1) : Ambiguous(At(seq, p + i))}

\* the largest element of a non-empty set of numbers
Largest(I) == CHOOSE i \in I : \A j \in I : j <= i

\* where a scan from p ends that leaves a rejected window at q for
\* q + max(I) + 1: at the first window it accepts, or past len - k
RECURSIVE ScanFrom(_)
ScanFrom(p) ==
    IF p > Len(seq) - k THEN p
    ELSE IF AmbiguousIn(p) = {} THEN p
    ELSE ScanFrom(p + Largest(AmbiguousIn(p)) + 1)

\* a call of init from position p has set pos and returned as the scan from p
\* does, and has passed over no valid window
InitFrom(p) ==
    /\ ~panicked'
    /\ pos' = ScanFrom(p)
    /\ ret' <=> pos' <= Len(seq) - k
    /\ ret' => ValidWindow(pos')
    /\ \A q \in p..(pos' - 1) : ~ValidWindow(q)

\* C29: has_invalid_base(seq, k, pos_n) returns true iff some of the first k
\* bytes is ambiguous and then sets pos_n to the largest such index (leaving
\* pos_n untouched otherwise), and NtHash::init, on rejecting a window at
\* position p whose ambiguous indices are I, resumes the scan at exactly
\* p + max(I) + 1, never passing over a valid window.
C29_RightmostSkip ==
    [][(mode = "nt" /\ op' = "roll") =>
          /\ \A p \in 0..(Len(seq) - k) : \A n \in {0, k} :
                /\ has_invalid_base(From(seq, p), k, n).found
                      <=> AmbiguousIn(p) # {}
                /\ has_invalid_base(From(seq, p), k, n).pos_n =
                      IF AmbiguousIn(p) # {} THEN Largest(AmbiguousIn(p)) ELSE n
          /\ ~initialized => InitFrom(pos)
          /\ (initialized /\ pos < Len(seq) - k /\ Ambiguous(At(seq, pos + k))) =>
                InitFrom(pos + k)]_vars

\* init has rejected the window NN at 0 and resumed at 2, the window at 1 being
\* passed over with it
C29_Witness ==
    /\ mode = "nt"
    /\ seq = <<ByteN, ByteN, ByteA>>
    /\ k = 2
    /\ start_pos = 0
    /\ op = "roll"
    /\ ~ret
    /\ pos = 2


\* ------------------------------------------------------------------------
\* The chunked base hashes
\* ------------------------------------------------------------------------
\* C30: for every window w of unambiguous bytes and every k >= 1 (all four
\* residues k mod 4, including k < 4), base_forward_hash(w, k) = h_k where
\* h_0 = 0, h_i = srol(h_{i-1}) XOR SEED_TAB[w[i-1]], and base_reverse_hash(w, k)
\* is the same iteration run over the complemented window read right to left,
\* given tetramer/trimer/dimer tables that hold the corresponding pre-rotated
\* XOR of seeds.
C30_ChunkedEqualsOneBase ==
    (mode = "kmer" /\ op = "base_hash") =>
        /\ fwd_hash = OneBaseAtATime(seq, k)
        /\ rev_hash = OneBaseAtATime(RevComp(seq), k)

\* the hashes of the 8-mer ACGATGCA (two chunks) have been computed
C30_Witness ==
    /\ mode = "kmer"
    /\ op = "base_hash"
    /\ seq = <<65, 67, 71, 65, 84, 71, 67, 65>>
    /\ fwd_hash = OneBaseAtATime(seq, k)
    /\ fwd_hash # rev_hash


\* ------------------------------------------------------------------------
\* Blind construction against blind rolling
\* ------------------------------------------------------------------------
\* the hasher holds what BlindNtHash::new leaves for base hashes f and v
SameAsConstructed(f, v) ==
    /\ fwd_hash = f
    /\ rev_hash = v
    /\ hashes = extend_hashes(f, v, k, num_hashes)

\* the hasher built at 0 and rolled over seq[k], ..., seq[k + pos - 1] holds
\* what BlindNtHash::new(seq, k, m, pos) computes from seq[pos..pos + k]
RolledEqualsConstructed ==
    SameAsConstructed(base_forward_hash(WindowAt(pos), k),
                      base_reverse_hash(WindowAt(pos), k))

SeedRollFalse ==
    /\ mode = "seediter"
    /\ res = "Ok"
    /\ initialized
    /\ ~done
    /\ op' = "next"
    /\ ~panicked'
    /\ ~ret'

\* C32: SeedNtHash::roll on an initialized spaced hasher returns false only
\* if no window at a position > pos and <= len - k has all care positions
\* unambiguous, and whenever it returns false the hashes buffer is left
\* unchanged.
C32_RollFalseMeansNoWindow ==
    [][SeedRollFalse =>
          /\ \A p \in (pos + 1)..(Len(seq) - k) : ~SeedValidWindow(p)
          /\ hashes' = hashes]_vars


\* ------------------------------------------------------------------------
\* The end of a backward loop
\* ------------------------------------------------------------------------
\* the call that gave t returned true and left every field of the hasher as
\* it was, so that the next call is the same call again
ReturnsTrueInPlace(t) == t.ret /\ [t EXCEPT !.ret = FALSE] = NtCur

\* C33: from every reachable state of a standard NtHash, `while h.roll_back()
\* {}` reaches a call that returns false after finitely many calls; roll_back
\* being a function of the hasher's fields, no reachable state is one in which
\* roll_back returns true and leaves all of them unchanged.
C33_RollBackLoopEnds ==
    (mode = "nt" /\ Live) => ~ReturnsTrueInPlace(roll_back(NtCur))


\* ------------------------------------------------------------------------
\* Peeking against rolling
\* ------------------------------------------------------------------------
\* the buffer h holds the extended hashes of the base hashes of the window w
HoldsHashesOf(h, w) ==
    h = extend_hashes(base_forward_hash(w, k), base_reverse_hash(w, k), k, Len(h))

\* the call that gave t returned true and left the values h in the buffer
ReturnsTrueWith(t, h) == t.ret /\ ~t.panic /\ t.hashes = h

\* C34: whenever NtHash::peek returns true, on an initialized hasher or not,
\* the buffer holds extend_hashes of the base hashes of the window
\* seq[pos+1 .. pos+1+k] for the pos held after the call, and an immediately
\* following roll returns true and leaves the same values in the buffer;
\* likewise peek_back with the window seq[pos-1 .. pos-1+k] and roll_back.
C34_PeekAgreesWithRoll ==
    [][/\ (mode = "nt" /\ op' = "peek" /\ ret' /\ ~panicked') =>
             /\ HoldsHashesOf(hashes', WindowAt(pos' + 1))
             /\ ReturnsTrueWith(roll(NtCur'), hashes')
       /\ (mode = "nt" /\ op' = "peek_back" /\ ret' /\ ~panicked') =>
             /\ HoldsHashesOf(hashes', WindowAt(pos' - 1))
             /\ ReturnsTrueWith(roll_back(NtCur'), hashes')]_vars

====
